---- MODULE Spec2Model ----
(***************************************************************************)
(* Fleet management system: NavGraph, Robot, FleetManager, TrafficManager. *)
(* Python floats are modelled by exact rationals <<numerator,denominator>> *)
(* in lowest terms; Python's 0-based list indices are kept and translated  *)
(* by At.  The dict FleetManager.robots is the sequence of its values in   *)
(* insertion order (each value carries its key in the field id).           *)
(***************************************************************************)
EXTENDS Integers, Sequences, FiniteSets, TLC

VARIABLES
    nav_graph,          \* NavGraph, immutable after load
    robots,             \* FleetManager.robots
    robot_count,        \* FleetManager.robot_count
    occupied_lanes,     \* FleetManager.occupied_lanes
    lane_reservations,  \* TrafficManager.lane_reservations
    intersection_slots, \* TrafficManager.intersection_slots
    now,                \* time.time(), relative to the start of the program
    last,               \* the last call: its arguments, result, log lines
                        \* and the fleet before it
    sums,               \* the values of now at which update_robots returned
    anim                \* the animation thread: its position in update_robots

vars == <<nav_graph, robots, robot_count, occupied_lanes, lane_reservations,
          intersection_slots, now, last, sums, anim>>

----------------------------------------------------------------------------
(* Bounds of the model *)

MaxRobots == 2

MaxTime == 4

MaxRunTime == 7

MaxApiTime == 2

\* the two threads are followed up to time MaxThreadTime
MaxThreadTime == 1

\* the hand-built graphs have up to MaxLanes lanes
MaxLanes == 5

\* the clock of the reservation calls is read up to MaxClock + 0.1 seconds
MaxClock == 1

----------------------------------------------------------------------------
(* Exact arithmetic standing for float arithmetic *)

Abs(i) == IF i < 0 THEN -i ELSE i

RECURSIVE Gcd(_, _)
Gcd(a, b) == IF b = 0 THEN a ELSE Gcd(b, a % b)

Norm(n, d) ==
    LET g == Gcd(Abs(n), Abs(d))
        s == IF d < 0 THEN -1 ELSE 1
    IN  <<(s * n) \div g, (s * d) \div g>>

Rat(i) == <<i, 1>>

RAdd(p, q) == Norm(p[1] * q[2] + q[1] * p[2], p[2] * q[2])

RSub(p, q) == Norm(p[1] * q[2] - q[1] * p[2], p[2] * q[2])

RMul(p, q) == Norm(p[1] * q[1], p[2] * q[2])

RDiv(p, q) == Norm(p[1] * q[2], p[2] * q[1])

RLt(p, q) == p[1] * q[2] < q[1] * p[2]

RLe(p, q) == p[1] * q[2] <= q[1] * p[2]

RMin(p, q) == IF RLt(q, p) THEN q ELSE p

RMax(p, q) == IF RLt(p, q) THEN q ELSE p

\* math.sqrt on the squared lengths of the graphs used here (perfect squares)
Sqrt(n) == CHOOSE k \in 0..n : k * k = n

\* Python list indexing, 0-based
At(s, i) == s[i + 1]

\* Python None for an Optional[int]
None == -1

----------------------------------------------------------------------------
(* NavGraph *)

\* float('infinity')
Infinity == -1

DistLess(a, b) == a # Infinity /\ (b = Infinity \/ a < b)

calculate_distance(vertices, start_idx, end_idx) ==
    LET start_vertex == At(vertices, start_idx)
        end_vertex == At(vertices, end_idx)
    IN  Sqrt((start_vertex.x - end_vertex.x) * (start_vertex.x - end_vertex.x)
             + (start_vertex.y - end_vertex.y) * (start_vertex.y - end_vertex.y))

RECURSIVE NeighborsBothWays(_, _, _)
NeighborsBothWays(lanes, i, k) ==
    IF k > Len(lanes) THEN <<>>
    ELSE (IF lanes[k].start_idx = i
          THEN <<[neighbor |-> lanes[k].end_idx, length |-> lanes[k].length]>>
          ELSE IF lanes[k].end_idx = i
          THEN <<[neighbor |-> lanes[k].start_idx, length |-> lanes[k].length]>>
          ELSE <<>>) \o NeighborsBothWays(lanes, i, k + 1)

\* adjacency_list[i]: the (neighbor, length) pairs of the lanes starting at i,
\* in lane order
RECURSIVE Neighbors(_, _, _)
Neighbors(lanes, i, k) ==
    IF k > Len(lanes) THEN <<>>
    ELSE (IF lanes[k].start_idx = i
          THEN <<[neighbor |-> lanes[k].end_idx, length |-> lanes[k].length]>>
          ELSE <<>>) \o Neighbors(lanes, i, k + 1)

build_adjacency_list(vertices, lanes) ==
    [i \in 0..(Len(vertices) - 1) |-> Neighbors(lanes, i, 1)]

\* vertices_data: sequence of <<x, y>>; lanes_data: sequence of <<start, end>>
load_graph(vertices_data, lanes_data) ==
    LET vertices == [i \in 1..Len(vertices_data) |->
                        [index |-> i - 1, x |-> vertices_data[i][1],
                         y |-> vertices_data[i][2]]]
        lanes == [k \in 1..Len(lanes_data) |->
                        [start_idx |-> lanes_data[k][1],
                         end_idx |-> lanes_data[k][2],
                         length |-> calculate_distance(vertices, lanes_data[k][1],
                                                       lanes_data[k][2])]]
    IN  [vertices |-> vertices, lanes |-> lanes,
         adjacency_list |-> build_adjacency_list(vertices, lanes)]

get_vertex_coords(g, index) ==
    <<Rat(At(g.vertices, index).x), Rat(At(g.vertices, index).y)>>

NumVertices(g) == Len(g.vertices)

VertexIdx(g) == 0..(NumVertices(g) - 1)

\* min(unvisited, key=lambda x: distances[x]): the first minimal element in
\* the iteration order of a set of small ints, which is ascending
MinUnvisited(unvisited, distances) ==
    CHOOSE c \in unvisited :
        /\ \A x \in unvisited : ~DistLess(distances[x], distances[c])
        /\ \A x \in unvisited :
              x < c => DistLess(distances[c], distances[x])

RECURSIVE RelaxFirstFound(_, _, _, _)
RelaxFirstFound(adj, current, k, st) ==
    IF k > Len(adj) THEN st
    ELSE LET neighbor == adj[k].neighbor
             alternative_route == st.distances[current] + adj[k].length
         IN  IF st.distances[neighbor] = Infinity
             THEN RelaxFirstFound(adj, current, k + 1,
                        [st EXCEPT !.distances[neighbor] = alternative_route,
                                   !.previous[neighbor] = current])
             ELSE RelaxFirstFound(adj, current, k + 1, st)

\* the for loop over adjacency_list[current], from its k-th entry on
RECURSIVE Relax(_, _, _, _)
Relax(adj, current, k, st) ==
    IF k > Len(adj) THEN st
    ELSE LET neighbor == adj[k].neighbor
             alternative_route == st.distances[current] + adj[k].length
         IN  IF DistLess(alternative_route, st.distances[neighbor])
             THEN Relax(adj, current, k + 1,
                        [st EXCEPT !.distances[neighbor] = alternative_route,
                                   !.previous[neighbor] = current])
             ELSE Relax(adj, current, k + 1, st)

\* the while loop of find_shortest_path
RECURSIVE DijkstraLoop(_, _, _)
DijkstraLoop(g, end_idx, st) ==
    IF st.unvisited = {} THEN st
    ELSE LET current == MinUnvisited(st.unvisited, st.distances)
         IN  IF current = end_idx \/ st.distances[current] = Infinity
             THEN st
             ELSE DijkstraLoop(g, end_idx,
                      Relax(g.adjacency_list[current], current, 1,
                            [st EXCEPT !.unvisited = @ \ {current}]))

\* path.append(current); current = previous[current], until None
RECURSIVE WalkBack(_, _)
WalkBack(previous, current) ==
    IF current = None THEN <<>>
    ELSE <<current>> \o WalkBack(previous, previous[current])

Reverse(s) == [i \in 1..Len(s) |-> s[Len(s) + 1 - i]]

ReconstructPathNoReverse(previous, start_idx, end_idx) ==
    IF previous[end_idx] = None /\ end_idx # start_idx THEN <<>>
    ELSE WalkBack(previous, end_idx)

ReconstructPath(previous, start_idx, end_idx) ==
    IF previous[end_idx] = None /\ end_idx # start_idx THEN <<>>
    ELSE Reverse(WalkBack(previous, end_idx))

find_shortest_path(g, start_idx, end_idx) ==
    IF start_idx = end_idx THEN <<start_idx>>
    ELSE LET st0 == [distances |-> [i \in VertexIdx(g) |->
                                       IF i = start_idx THEN 0 ELSE Infinity],
                     previous |-> [i \in VertexIdx(g) |-> None],
                     unvisited |-> VertexIdx(g)]
             st == DijkstraLoop(g, end_idx, st0)
         IN  ReconstructPath(st.previous, start_idx, end_idx)

----------------------------------------------------------------------------
(* Robot *)

IDLE == "idle"

MOVING == "moving"

WAITING == "waiting"

CHARGING == "charging"

TASK_COMPLETE == "task_complete"

DEFAULT_SPEED == Rat(1)

\* values of str(uuid.uuid4())[:8]; task_id is None before a task
TaskIds == {"1b9d6bcd", "6ec0bd7f"}

\* uuid4 returns a value not returned before: no operation compares the task
\* ids of two robots, so the new id is one that differs from the id it replaces
FreshUuid(old) == CHOOSE u \in TaskIds : u # old

NoTaskId == "None"

RobotInit(robot_id, position_idx, position, color) ==
    [id |-> robot_id, position_idx |-> position_idx, position |-> position,
     color |-> color, state |-> IDLE, path |-> <<>>, current_path_index |-> 0,
     destination_idx |-> None, task_id |-> NoTaskId, progress |-> Rat(0),
     battery_level |-> Rat(100), speed |-> DEFAULT_SPEED]

\* Robot.assign_task: the fields are stored before the start of the path is
\* checked; raised names the exception that ends the call, if any
RobotAssignTaskKeepIndex(r, destination_idx, path, uuid) ==
    LET r1 == [r EXCEPT !.destination_idx = destination_idx, !.path = path,
                        !.task_id = uuid]
    IN  IF path = <<>> THEN [robot |-> r1, raised |-> "IndexError"]
        ELSE IF r.position_idx # At(path, 0)
        THEN [robot |-> r1, raised |-> "ValueError"]
        ELSE IF Len(path) = 1
        THEN [robot |-> [r1 EXCEPT !.state = TASK_COMPLETE], raised |-> "none"]
        ELSE [robot |-> [r1 EXCEPT !.state = MOVING, !.progress = Rat(0)],
              raised |-> "none"]

RobotAssignTask(r, destination_idx, path, uuid) ==
    LET r1 == [r EXCEPT !.destination_idx = destination_idx, !.path = path,
                        !.current_path_index = 0, !.task_id = uuid]
    IN  IF path = <<>> THEN [robot |-> r1, raised |-> "IndexError"]
        ELSE IF r.position_idx # At(path, 0)
        THEN [robot |-> r1, raised |-> "ValueError"]
        ELSE IF Len(path) = 1
        THEN [robot |-> [r1 EXCEPT !.state = TASK_COMPLETE], raised |-> "none"]
        ELSE [robot |-> [r1 EXCEPT !.state = MOVING, !.progress = Rat(0)],
              raised |-> "none"]

get_next_vertex(r) ==
    IF r.path = <<>> \/ r.current_path_index >= Len(r.path) - 1 THEN None
    ELSE At(r.path, r.current_path_index + 1)

\* a lane is the pair <<start_idx, end_idx>>; NoLane stands for None
NoLane == <<>>

GetPendingLane(r) ==
    IF r.state \notin {MOVING, WAITING} \/ r.path = <<>>
       \/ r.current_path_index >= Len(r.path) - 1
    THEN NoLane
    ELSE <<At(r.path, r.current_path_index), At(r.path, r.current_path_index + 1)>>

get_current_lane(r) ==
    IF r.state # MOVING \/ r.path = <<>>
       \/ r.current_path_index >= Len(r.path) - 1
    THEN NoLane
    ELSE <<At(r.path, r.current_path_index), At(r.path, r.current_path_index + 1)>>

SetWaitingResetsProgress(r) ==
    IF r.state # WAITING THEN [r EXCEPT !.state = WAITING, !.progress = Rat(0)] ELSE r

set_waiting(r) == IF r.state # WAITING THEN [r EXCEPT !.state = WAITING] ELSE r

ResumeToIdle(r) == IF r.state = WAITING THEN [r EXCEPT !.state = IDLE] ELSE r

resume_movement(r) == IF r.state = WAITING THEN [r EXCEPT !.state = MOVING] ELSE r

\* FleetManager.is_lane_blocked, on the table occ (a function on the set of
\* its keys)
IsLaneOccupied(occ, start_idx, end_idx, robot_id) ==
    <<start_idx, end_idx>> \in DOMAIN occ

is_lane_blocked(occ, start_idx, end_idx, robot_id) ==
    LET lane == <<start_idx, end_idx>>
    IN  lane \in DOMAIN occ /\ occ[lane] # robot_id

ReachedNextVertexStrict(progress) == RLt(Rat(1), progress)

\* if self.progress >= 1.0
ReachedNextVertex(progress) == RLe(Rat(1), progress)

\* the moving branch of Robot.update (robot.py 145-192)
RobotAdvance(r, delta_time, g, occ) ==
    IF r.current_path_index < Len(r.path) - 1
    THEN LET current_vertex_idx == At(r.path, r.current_path_index)
             next_vertex_idx == At(r.path, r.current_path_index + 1)
         IN  IF is_lane_blocked(occ, current_vertex_idx, next_vertex_idx, r.id)
             THEN [robot |-> set_waiting(r), changed |-> TRUE]
             ELSE LET start_pos == get_vertex_coords(g, current_vertex_idx)
                      end_pos == get_vertex_coords(g, next_vertex_idx)
                      total_distance ==
                          calculate_distance(g.vertices, current_vertex_idx,
                                             next_vertex_idx)
                      distance_to_move == RMul(r.speed, delta_time)
                      progress_increment ==
                          IF total_distance > 0
                          THEN RDiv(distance_to_move, Rat(total_distance))
                          ELSE Rat(1)
                      progress == RMin(Rat(1), RMax(Rat(0),
                                      RAdd(r.progress, progress_increment)))
                      position ==
                          <<RAdd(start_pos[1],
                                 RMul(RSub(end_pos[1], start_pos[1]), progress)),
                            RAdd(start_pos[2],
                                 RMul(RSub(end_pos[2], start_pos[2]), progress))>>
                      battery == RMax(Rat(0), RSub(r.battery_level,
                                     RMul(<<1, 100>>, distance_to_move)))
                  IN  IF ReachedNextVertex(progress)
                      THEN LET r1 == [r EXCEPT !.position = end_pos,
                                         !.position_idx = next_vertex_idx,
                                         !.current_path_index = @ + 1,
                                         !.progress = Rat(0)]
                           IN  IF r1.current_path_index >= Len(r1.path) - 1
                               THEN [robot |-> [r1 EXCEPT !.state = TASK_COMPLETE],
                                     changed |-> TRUE]
                               ELSE [robot |-> [r1 EXCEPT !.battery_level = battery],
                                     changed |-> TRUE]
                      ELSE [robot |-> [r EXCEPT !.progress = progress,
                                          !.position = position,
                                          !.battery_level = battery],
                            changed |-> TRUE]
    ELSE [robot |-> r, changed |-> FALSE]

RobotUpdateNoResume(r, delta_time, g, occ) ==
    IF r.state \notin {MOVING, WAITING} THEN [robot |-> r, changed |-> FALSE]
    ELSE IF r.state = WAITING THEN [robot |-> r, changed |-> FALSE]
    ELSE RobotAdvance(r, delta_time, g, occ)

RobotUpdateAnyState(r, delta_time, g, occ) ==
    IF r.state = WAITING
    THEN LET current_vertex == At(r.path, r.current_path_index)
             next_vertex == get_next_vertex(r)
         IN  IF next_vertex # None
                /\ ~is_lane_blocked(occ, current_vertex, next_vertex, r.id)
             THEN RobotAdvance(resume_movement(r), delta_time, g, occ)
             ELSE [robot |-> r, changed |-> FALSE]
    ELSE RobotAdvance(r, delta_time, g, occ)

RobotUpdateResumeOnly(r, delta_time, g, occ) ==
    IF r.state \notin {MOVING, WAITING} THEN [robot |-> r, changed |-> FALSE]
    ELSE IF r.state = WAITING
    THEN LET current_vertex == At(r.path, r.current_path_index)
             next_vertex == get_next_vertex(r)
         IN  IF next_vertex # None
                /\ ~is_lane_blocked(occ, current_vertex, next_vertex, r.id)
             THEN [robot |-> resume_movement(r), changed |-> TRUE]
             ELSE [robot |-> r, changed |-> FALSE]
    ELSE RobotAdvance(r, delta_time, g, occ)

\* Robot.update with is_lane_blocked bound to the table occ
RobotUpdate(r, delta_time, g, occ) ==
    IF r.state \notin {MOVING, WAITING} THEN [robot |-> r, changed |-> FALSE]
    ELSE IF r.state = WAITING
    THEN LET current_vertex == At(r.path, r.current_path_index)
             next_vertex == get_next_vertex(r)
         IN  IF next_vertex # None
                /\ ~is_lane_blocked(occ, current_vertex, next_vertex, r.id)
             THEN RobotAdvance(resume_movement(r), delta_time, g, occ)
             ELSE [robot |-> r, changed |-> FALSE]
    ELSE RobotAdvance(r, delta_time, g, occ)

----------------------------------------------------------------------------
(* FleetManager *)

ROBOT_COLORS ==
    <<"#FF0000", "#00FF00", "#0000FF", "#FFFF00", "#FF00FF",
      "#00FFFF", "#FF8000", "#8000FF", "#0080FF", "#FF0080">>

\* f"R{n}"
RobotId(n) == "R" \o ToString(n)

HasRobot(rs, robot_id) == \E i \in 1..Len(rs) : rs[i].id = robot_id

IndexOf(rs, robot_id) == CHOOSE i \in 1..Len(rs) : rs[i].id = robot_id

\* d[key] = value on a dict kept as a function on its keys
Upsert(d, key, value) ==
    [k \in DOMAIN d \cup {key} |-> IF k = key THEN value ELSE d[k]]

EmptyDict == [k \in {} |-> 0]

create_robot_same_id(rs, count, g, vertex_idx) ==
    LET robot_id == RobotId(1)
        count1 == count + 1
        vertex_coords == get_vertex_coords(g, vertex_idx)
        color == At(ROBOT_COLORS, count1 % Len(ROBOT_COLORS))
        robot == RobotInit(robot_id, vertex_idx, vertex_coords, color)
    IN  [robots |-> Append(rs, robot), robot_count |-> count1, ret |-> robot_id,
         log |-> <<[ev |-> "created", robot |-> robot_id, vertex |-> vertex_idx]>>]

create_robot(rs, count, g, vertex_idx) ==
    LET robot_id == RobotId(count + 1)
        count1 == count + 1
        vertex_coords == get_vertex_coords(g, vertex_idx)
        color == At(ROBOT_COLORS, count1 % Len(ROBOT_COLORS))
        robot == RobotInit(robot_id, vertex_idx, vertex_coords, color)
    IN  [robots |-> Append(rs, robot), robot_count |-> count1, ret |-> robot_id,
         log |-> <<[ev |-> "created", robot |-> robot_id, vertex |-> vertex_idx]>>]

assign_task_no_state_check(rs, g, robot_id, destination_idx, uuid) ==
    IF ~HasRobot(rs, robot_id)
    THEN [robots |-> rs, ret |-> FALSE, path |-> <<>>, raised |-> "none",
          log |-> <<[ev |-> "error_unknown", robot |-> robot_id]>>]
    ELSE LET i == IndexOf(rs, robot_id)
             start_idx == rs[i].position_idx
             path == find_shortest_path(g, start_idx, destination_idx)
             res == RobotAssignTask(rs[i], destination_idx, path, uuid)
         IN  IF path = <<>>
             THEN [robots |-> rs, ret |-> FALSE, path |-> path, raised |-> "none",
                   log |-> <<[ev |-> "error_no_path", start |-> start_idx,
                              dest |-> destination_idx]>>]
             ELSE [robots |-> [rs EXCEPT ![i] = res.robot],
                   ret |-> (res.raised = "none"), path |-> path,
                   raised |-> res.raised,
                   log |-> <<[ev |-> "assigned", robot |-> robot_id]>>]

\* raised: the exception of Robot.assign_task caught at line 127, if any
assign_task(rs, g, robot_id, destination_idx, uuid) ==
    IF ~HasRobot(rs, robot_id)
    THEN [robots |-> rs, ret |-> FALSE, path |-> <<>>, raised |-> "none",
          log |-> <<[ev |-> "error_unknown", robot |-> robot_id]>>]
    ELSE LET i == IndexOf(rs, robot_id)
             start_idx == rs[i].position_idx
             path == find_shortest_path(g, start_idx, destination_idx)
             res == RobotAssignTask(rs[i], destination_idx, path, uuid)
         IN  IF rs[i].state \in {MOVING, WAITING}
             THEN [robots |-> rs, ret |-> FALSE, path |-> <<>>, raised |-> "none",
                   log |-> <<[ev |-> "error_busy", robot |-> robot_id]>>]
             ELSE IF path = <<>>
             THEN [robots |-> rs, ret |-> FALSE, path |-> path, raised |-> "none",
                   log |-> <<[ev |-> "error_no_path", start |-> start_idx,
                              dest |-> destination_idx]>>]
             ELSE IF res.raised = "none"
             THEN [robots |-> [rs EXCEPT ![i] = res.robot], ret |-> TRUE,
                   path |-> path, raised |-> "none",
                   log |-> <<[ev |-> "assigned", robot |-> robot_id,
                              start |-> start_idx, dest |-> destination_idx]>>]
             ELSE [robots |-> [rs EXCEPT ![i] = res.robot], ret |-> FALSE,
                   path |-> path, raised |-> res.raised,
                   log |-> <<[ev |-> "error_assign", robot |-> robot_id]>>]

RECURSIVE MarkOccupiedFirstWins(_, _, _)
MarkOccupiedFirstWins(rs, i, occ) ==
    IF i > Len(rs) THEN occ
    ELSE LET lane == get_current_lane(rs[i])
         IN  MarkOccupiedFirstWins(rs, i + 1,
                 IF lane # NoLane /\ lane \notin DOMAIN occ
                 THEN Upsert(occ, lane, rs[i].id) ELSE occ)

\* the first loop of update_robots: occupied_lanes[lane] = robot_id for the
\* robots i..Len(rs), in order
RECURSIVE MarkOccupied(_, _, _)
MarkOccupied(rs, i, occ) ==
    IF i > Len(rs) THEN occ
    ELSE LET lane == get_current_lane(rs[i])
         IN  MarkOccupied(rs, i + 1,
                 IF lane # NoLane THEN Upsert(occ, lane, rs[i].id) ELSE occ)

\* the log line chosen at fleet_manager.py 164-181 for an updated robot
StateChangeLog(r, occ) ==
    IF r.state = TASK_COMPLETE
    THEN <<[ev |-> "arrived", robot |-> r.id, dest |-> r.destination_idx]>>
    ELSE IF r.state = WAITING
    THEN (IF get_current_lane(r) # NoLane
          THEN <<[ev |-> "waiting", robot |-> r.id, lane |-> get_current_lane(r),
                  blocker |-> IF get_current_lane(r) \in DOMAIN occ
                              THEN occ[get_current_lane(r)] ELSE "None"]>>
          ELSE <<>>)
    ELSE IF r.state = MOVING /\ r.current_path_index < Len(r.path) - 1
    THEN (IF r.current_path_index > 0
             /\ At(r.path, r.current_path_index - 1)
                    # At(r.path, r.current_path_index)
          THEN <<[ev |-> "moved", robot |-> r.id,
                  from |-> At(r.path, r.current_path_index - 1),
                  to |-> At(r.path, r.current_path_index)]>>
          ELSE <<>>)
    ELSE <<>>

UpdateStepFreesVacated(acc, i, delta_time, g) ==
    LET res == RobotUpdate(acc.robots[i], delta_time, g, acc.occupied_lanes)
        lane == get_current_lane(res.robot)
        kept == [k \in {key \in DOMAIN acc.occupied_lanes :
                            acc.occupied_lanes[key] # res.robot.id}
                    |-> acc.occupied_lanes[k]]
        occ1 == IF lane # NoLane THEN Upsert(kept, lane, res.robot.id) ELSE kept
    IN  [robots |-> [acc.robots EXCEPT ![i] = res.robot],
         occupied_lanes |-> occ1,
         log |-> IF res.changed
                 THEN acc.log \o StateChangeLog(res.robot, occ1)
                 ELSE acc.log]

\* one iteration of the second loop of update_robots, for robot i; acc holds
\* the robots, the table and the log lines so far
UpdateStep(acc, i, delta_time, g) ==
    LET res == RobotUpdate(acc.robots[i], delta_time, g, acc.occupied_lanes)
        lane == get_current_lane(res.robot)
        occ1 == IF res.changed /\ lane # NoLane
                THEN Upsert(acc.occupied_lanes, lane, res.robot.id)
                ELSE acc.occupied_lanes
    IN  [robots |-> [acc.robots EXCEPT ![i] = res.robot],
         occupied_lanes |-> occ1,
         log |-> IF res.changed
                 THEN acc.log \o StateChangeLog(res.robot, occ1)
                 ELSE acc.log]

\* the second loop of update_robots, from robot i on
RECURSIVE UpdateLoop(_, _, _, _)
UpdateLoop(acc, i, delta_time, g) ==
    IF i > Len(acc.robots) THEN acc
    ELSE UpdateLoop(UpdateStep(acc, i, delta_time, g), i + 1, delta_time, g)

update_robots(rs, g, delta_time) ==
    UpdateLoop([robots |-> rs, occupied_lanes |-> MarkOccupied(rs, 1, EmptyDict),
                log |-> <<>>], 1, delta_time, g)

----------------------------------------------------------------------------
(* TrafficManager *)

\* the loop of process_waiting_robots, from robot i on
RECURSIVE process_waiting_robots(_, _, _)
process_waiting_robots(rs, occ, i) ==
    IF i > Len(rs) THEN rs
    ELSE LET robot == rs[i]
             lane == get_current_lane(robot)
         IN  IF robot.state = WAITING /\ lane # NoLane
                /\ ~is_lane_blocked(occ, lane[1], lane[2], robot.id)
             THEN process_waiting_robots([rs EXCEPT ![i] = resume_movement(robot)],
                                         occ, i + 1)
             ELSE process_waiting_robots(rs, occ, i + 1)

ClearExpiredPurgesAll(table, current_time) == EmptyDict

\* a reservation table restricted to the entries with expiry_time >= current_time
ClearExpired(table, current_time) ==
    [k \in {key \in DOMAIN table : ~RLt(table[key].expiry_time, current_time)}
        |-> table[k]]

ReserveEntryAlwaysGrants(table, key, robot_id, duration, current_time) ==
    [table |-> Upsert(table, key, [robot_id |-> robot_id,
                                   expiry_time |-> RAdd(current_time, duration)]),
     ret |-> TRUE]

\* the body shared by reserve_lane and reserve_intersection: the check of the
\* entry under key, then the reservation
ReserveEntry(table, key, robot_id, duration, current_time) ==
    IF /\ key \in DOMAIN table
       /\ table[key].robot_id # robot_id
       /\ RLt(current_time, table[key].expiry_time)
    THEN [table |-> table, ret |-> FALSE]
    ELSE [table |-> Upsert(table, key, [robot_id |-> robot_id,
                                        expiry_time |-> RAdd(current_time, duration)]),
          ret |-> TRUE]

\* current_time is the value of time.time() read by the call
reserve_lane(table, lane, robot_id, duration, current_time) ==
    ReserveEntry(table, lane, robot_id, duration, current_time)

reserve_intersection(table, vertex_idx, robot_id, duration, current_time) ==
    ReserveEntry(table, vertex_idx, robot_id, duration, current_time)

\* the entry under key is reserved by another robot and expiry_time > current_time
ReservedByOther(table, key, robot_id, current_time) ==
    /\ key \in DOMAIN table
    /\ table[key].robot_id # robot_id
    /\ RLt(current_time, table[key].expiry_time)

\* the loop of check_path_availability, from index i (0-based) on
RECURSIVE CheckPathLoop(_, _, _, _, _, _)
CheckPathLoop(lanes, slots, path, robot_id, current_time, i) ==
    IF i >= Len(path) - 1 THEN TRUE
    ELSE LET start_idx == At(path, i)
             end_idx == At(path, i + 1)
         IN  IF ReservedByOther(lanes, <<start_idx, end_idx>>, robot_id, current_time)
             THEN FALSE
             ELSE IF ReservedByOther(slots, start_idx, robot_id, current_time)
             THEN FALSE
             ELSE CheckPathLoop(lanes, slots, path, robot_id, current_time, i + 1)

check_path_availability(lanes, slots, path, robot_id, current_time) ==
    IF path = <<>> \/ Len(path) < 2 THEN TRUE
    ELSE CheckPathLoop(lanes, slots, path, robot_id, current_time, 0)

----------------------------------------------------------------------------
(* The program: a graph is loaded, then the GUI creates robots and assigns  *)
(* tasks while the animation loop calls update_robots and                  *)
(* TrafficManager.update.                                                  *)

\* v0(0,0) v1(3,0) v2(3,4), lanes v0->v1 (3) and v1->v2 (4)
GraphA == load_graph(<< <<0, 0>>, <<3, 0>>, <<3, 4>> >>, << <<0, 1>>, <<1, 2>> >>)

\* v0(0,0) v1(2,0) v2(5,0), lanes v0->v1 (2) and v1->v2 (3)
GraphB == load_graph(<< <<0, 0>>, <<2, 0>>, <<5, 0>> >>, << <<0, 1>>, <<1, 2>> >>)

\* the graph of the fleet runs, and the graphs of the runs of one robot and
\* of two robots sent along a common lane
Graphs == {GraphB}

RunGraphs == {GraphA, GraphB}

\* the tick durations current_time - last_update_time tried
Deltas == {Rat(1)}

RunDeltas == {Rat(1), Rat(2)}

RobotIds == {RobotId(k) : k \in 1..(MaxRobots + 1)}

Fleet == [robots |-> robots, robot_count |-> robot_count,
          occupied_lanes |-> occupied_lanes]

\* the reservation tables and the clock, recorded with a call
Tables == [lane_reservations |-> lane_reservations,
           intersection_slots |-> intersection_slots, now |-> now]

Call(op, rid, vertex, delta, ret, path, raised, log) ==
    [op |-> op, rid |-> rid, vertex |-> vertex, delta |-> delta, ret |-> ret,
     path |-> path, raised |-> raised, log |-> log, pre |-> Fleet,
     tables |-> Tables]

NoCall ==
    [op |-> "init", rid |-> "None", vertex |-> None, delta |-> Rat(0),
     ret |-> FALSE, path |-> <<>>, raised |-> "none", log |-> <<>>,
     pre |-> [robots |-> <<>>, robot_count |-> 0, occupied_lanes |-> EmptyDict]]

\* the animation thread between two passes of its loop (time.sleep)
AnimSleeping == [pc |-> "sleep", i |-> 0, size |-> 0, delta_time |-> Rat(0),
                 log |-> <<>>]

\* FleetManager and TrafficManager as constructed by main()
Init ==
    /\ nav_graph \in Graphs
    /\ robots = <<>>
    /\ robot_count = 0
    /\ occupied_lanes = EmptyDict
    /\ lane_reservations = EmptyDict
    /\ intersection_slots = EmptyDict
    /\ now = Rat(0)
    /\ last = NoCall
    /\ sums = {}
    /\ anim = AnimSleeping

CreateRobot(vertex_idx) ==
    /\ robot_count < MaxRobots
    /\ LET res == create_robot(robots, robot_count, nav_graph, vertex_idx)
       IN  /\ robots' = res.robots
           /\ robot_count' = res.robot_count
           /\ last' = Call("create_robot", res.ret, vertex_idx, Rat(0), TRUE,
                           <<>>, "none", res.log)
    /\ UNCHANGED <<nav_graph, occupied_lanes, lane_reservations,
                   intersection_slots, now, sums, anim>>

AssignTask(robot_id, destination_idx) ==
    /\ LET uuid == IF HasRobot(robots, robot_id)
                   THEN FreshUuid(robots[IndexOf(robots, robot_id)].task_id)
                   ELSE NoTaskId
           res == assign_task(robots, nav_graph, robot_id, destination_idx, uuid)
       IN  /\ robots' = res.robots
           /\ last' = Call("assign_task", robot_id, destination_idx, Rat(0),
                           res.ret, res.path, res.raised, res.log)
    /\ UNCHANGED <<nav_graph, robot_count, occupied_lanes, lane_reservations,
                   intersection_slots, now, sums, anim>>

\* one pass of the animation loop (fleet_gui.py 480-497): update_robots with
\* the elapsed time, then TrafficManager.update with the current time; the
\* run is followed up to the time limit
TickBody(delta_time, limit) ==
    /\ RLe(RAdd(now, delta_time), Rat(limit))
    /\ now' = RAdd(now, delta_time)
    /\ LET res == update_robots(robots, nav_graph, delta_time)
       IN  /\ robots' = process_waiting_robots(res.robots, res.occupied_lanes, 1)
           /\ occupied_lanes' = res.occupied_lanes
           /\ last' = Call("tick", "None", None, delta_time, TRUE, <<>>, "none",
                           res.log)
    /\ lane_reservations' = ClearExpired(lane_reservations, now')
    /\ intersection_slots' = ClearExpired(intersection_slots, now')
    /\ UNCHANGED <<nav_graph, robot_count, anim>>

Tick(delta_time) == TickBody(delta_time, MaxTime) /\ UNCHANGED sums

Next ==
    \/ \E v \in VertexIdx(nav_graph) : CreateRobot(v)
    \/ \E rid \in RobotIds, d \in VertexIdx(nav_graph) : AssignTask(rid, d)
    \/ \E dt \in Deltas : Tick(dt)

Spec == Init /\ [][Next]_vars

----------------------------------------------------------------------------
(* Runs of the animation loop alone, from a fleet that was given its tasks *)
(* before the first tick                                                   *)

\* a tick whose end time is recorded in sums
RunTick(delta_time) ==
    /\ TickBody(delta_time, MaxRunTime)
    /\ sums' = sums \cup {now'}

SharesLane(p, q) ==
    \E i \in 1..(Len(p) - 1), j \in 1..(Len(q) - 1) :
        <<p[i], p[i + 1]>> = <<q[j], q[j + 1]>>

\* one robot created at v and sent to d, d # v
InitLone ==
    /\ nav_graph \in RunGraphs
    /\ \E v \in VertexIdx(nav_graph), d \in VertexIdx(nav_graph) :
          LET c == create_robot(<<>>, 0, nav_graph, v)
              a == assign_task(c.robots, nav_graph, RobotId(1), d,
                               FreshUuid(NoTaskId))
          IN  /\ a.ret /\ Len(a.path) > 1
              /\ robots = a.robots
              /\ robot_count = c.robot_count
              /\ last = [op |-> "assign_task", rid |-> RobotId(1), vertex |-> d,
                         delta |-> Rat(0), ret |-> a.ret, path |-> a.path,
                         raised |-> a.raised, log |-> a.log,
                         pre |-> [robots |-> c.robots,
                                  robot_count |-> c.robot_count,
                                  occupied_lanes |-> EmptyDict]]
    /\ occupied_lanes = EmptyDict
    /\ lane_reservations = EmptyDict
    /\ intersection_slots = EmptyDict
    /\ now = Rat(0)
    /\ sums = {Rat(0)}
    /\ anim = AnimSleeping

RunNext == \E dt \in RunDeltas : RunTick(dt)

SpecLone == InitLone /\ [][RunNext]_vars

\* two robots created at the same vertex v and sent to d1 and d2 along paths
\* that share a lane
InitPair ==
    /\ nav_graph \in RunGraphs
    /\ \E v \in VertexIdx(nav_graph), d1 \in VertexIdx(nav_graph),
          d2 \in VertexIdx(nav_graph) :
          LET c1 == create_robot(<<>>, 0, nav_graph, v)
              c2 == create_robot(c1.robots, c1.robot_count, nav_graph, v)
              a1 == assign_task(c2.robots, nav_graph, RobotId(1), d1,
                                FreshUuid(NoTaskId))
              a2 == assign_task(a1.robots, nav_graph, RobotId(2), d2,
                                FreshUuid(NoTaskId))
          IN  /\ a1.ret /\ a2.ret /\ SharesLane(a1.path, a2.path)
              /\ robots = a2.robots
              /\ robot_count = c2.robot_count
              /\ last = [op |-> "assign_task", rid |-> RobotId(2), vertex |-> d2,
                         delta |-> Rat(0), ret |-> a2.ret, path |-> a2.path,
                         raised |-> a2.raised, log |-> a2.log,
                         pre |-> [robots |-> a1.robots,
                                  robot_count |-> c2.robot_count,
                                  occupied_lanes |-> EmptyDict]]
    /\ occupied_lanes = EmptyDict
    /\ lane_reservations = EmptyDict
    /\ intersection_slots = EmptyDict
    /\ now = Rat(0)
    /\ sums = {Rat(0)}
    /\ anim = AnimSleeping

SpecPair == InitPair /\ [][RunNext]_vars

----------------------------------------------------------------------------
(* The methods of Robot and TrafficManager called directly on one robot,    *)
(* as a caller holding FleetManager.get_robot_by_id(...) can               *)

IsLane(g, a, b) ==
    \E k \in 1..Len(g.lanes) : g.lanes[k].start_idx = a /\ g.lanes[k].end_idx = b

\* the non-empty vertex sequences of up to 3 vertices that follow lanes
LanePaths(g) ==
    {p \in UNION {[1..n -> VertexIdx(g)] : n \in 1..3} :
        \A i \in 1..(Len(p) - 1) : IsLane(g, p[i], p[i + 1])}

InitApi ==
    /\ nav_graph \in Graphs
    /\ \E v \in VertexIdx(nav_graph) :
          LET c == create_robot(<<>>, 0, nav_graph, v)
          IN  /\ robots = c.robots
              /\ robot_count = c.robot_count
              /\ last = [NoCall EXCEPT !.op = "create_robot", !.rid = c.ret,
                                       !.vertex = v, !.ret = TRUE, !.log = c.log]
    /\ occupied_lanes = EmptyDict
    /\ lane_reservations = EmptyDict
    /\ intersection_slots = EmptyDict
    /\ now = Rat(0)
    /\ sums = {}
    /\ anim = AnimSleeping

\* robot.assign_task(path[-1], path)
RobotAssignTaskCall(i, path) ==
    /\ LET res == RobotAssignTask(robots[i], path[Len(path)], path,
                                  FreshUuid(robots[i].task_id))
       IN  /\ robots' = [robots EXCEPT ![i] = res.robot]
           /\ last' = Call("robot_assign_task", robots[i].id, path[Len(path)],
                           Rat(0), res.raised = "none", path, res.raised, <<>>)
    /\ UNCHANGED <<nav_graph, robot_count, occupied_lanes, lane_reservations,
                   intersection_slots, now, sums, anim>>

\* robot.set_waiting() on a moving robot
RobotSetWaitingCall(i) ==
    /\ robots[i].state = MOVING
    /\ robots' = [robots EXCEPT ![i] = set_waiting(robots[i])]
    /\ last' = Call("set_waiting", robots[i].id, None, Rat(0), TRUE, <<>>,
                    "none", <<>>)
    /\ UNCHANGED <<nav_graph, robot_count, occupied_lanes, lane_reservations,
                   intersection_slots, now, sums, anim>>

\* traffic_manager.process_waiting_robots()
ProcessWaitingRobotsCall ==
    /\ robots' = process_waiting_robots(robots, occupied_lanes, 1)
    /\ last' = Call("process_waiting_robots", "None", None, Rat(0), TRUE, <<>>,
                    "none", <<>>)
    /\ UNCHANGED <<nav_graph, robot_count, occupied_lanes, lane_reservations,
                   intersection_slots, now, sums, anim>>

ApiTick(delta_time) == TickBody(delta_time, MaxApiTime) /\ UNCHANGED sums

ApiNext ==
    \/ \E i \in 1..Len(robots), p \in LanePaths(nav_graph) :
          RobotAssignTaskCall(i, p)
    \/ \E i \in 1..Len(robots) : RobotSetWaitingCall(i)
    \/ ProcessWaitingRobotsCall
    \/ \E dt \in Deltas : ApiTick(dt)

SpecApi == InitApi /\ [][ApiNext]_vars

----------------------------------------------------------------------------
(* The reservation methods of TrafficManager called directly, at the times *)
(* time.time() returns; now is the latest reading of the clock             *)

\* the readings of the clock at which calls are made: 0 and 0.1 seconds, and
\* the same after each full second up to MaxClock
ClockReadings ==
    {Rat(0), <<1, 10>>} \cup UNION {{Rat(k), RAdd(Rat(k), <<1, 10>>)} : k \in 1..MaxClock}

\* the lease durations tried
Durations == {Rat(1)}

\* the robot ids that ask for reservations
Requesters == {RobotId(1), RobotId(2)}

\* the lanes and the vertices reserved
ReservedLanes == {<<0, 1>>}

ReservedVertices == {0, 1}

\* time passes between two calls
TimePasses(t) ==
    /\ RLt(now, t)
    /\ now' = t
    /\ UNCHANGED <<nav_graph, robots, robot_count, occupied_lanes,
                   lane_reservations, intersection_slots, last, sums, anim>>

ReserveLaneCallMarksOccupied(lane, robot_id, duration) ==
    /\ LET res == reserve_lane(lane_reservations, lane, robot_id, duration, now)
       IN  /\ lane_reservations' = res.table
           /\ occupied_lanes' = IF res.ret THEN Upsert(occupied_lanes, lane, robot_id)
                                ELSE occupied_lanes
           /\ last' = Call("reserve_lane", robot_id, None, duration, res.ret,
                           lane, "none", <<>>)
    /\ UNCHANGED <<nav_graph, robots, robot_count, intersection_slots, now, sums,
                   anim>>

\* traffic_manager.reserve_lane(lane, robot_id, duration)
ReserveLaneCall(lane, robot_id, duration) ==
    /\ LET res == reserve_lane(lane_reservations, lane, robot_id, duration, now)
       IN  /\ lane_reservations' = res.table
           /\ last' = Call("reserve_lane", robot_id, None, duration, res.ret,
                           lane, "none", <<>>)
    /\ UNCHANGED <<nav_graph, robots, robot_count, occupied_lanes,
                   intersection_slots, now, sums, anim>>

\* traffic_manager.reserve_intersection(vertex_idx, robot_id, duration)
ReserveIntersectionCall(vertex_idx, robot_id, duration) ==
    /\ LET res == reserve_intersection(intersection_slots, vertex_idx, robot_id,
                                       duration, now)
       IN  /\ intersection_slots' = res.table
           /\ last' = Call("reserve_intersection", robot_id, vertex_idx, duration,
                           res.ret, <<>>, "none", <<>>)
    /\ UNCHANGED <<nav_graph, robots, robot_count, occupied_lanes,
                   lane_reservations, now, sums, anim>>

\* traffic_manager.check_path_availability(path, robot_id)
CheckPathAvailabilityCall(path, robot_id) ==
    /\ last' = Call("check_path_availability", robot_id, None, Rat(0),
                    check_path_availability(lane_reservations, intersection_slots,
                                            path, robot_id, now),
                    path, "none", <<>>)
    /\ UNCHANGED <<nav_graph, robots, robot_count, occupied_lanes,
                   lane_reservations, intersection_slots, now, sums, anim>>

\* traffic_manager.clear_expired_reservations(time.time())
ClearExpiredReservationsCall ==
    /\ lane_reservations' = ClearExpired(lane_reservations, now)
    /\ intersection_slots' = ClearExpired(intersection_slots, now)
    /\ last' = Call("clear_expired_reservations", "None", None, Rat(0), TRUE,
                    <<>>, "none", <<>>)
    /\ UNCHANGED <<nav_graph, robots, robot_count, occupied_lanes, now, sums,
                   anim>>

TrafficNext ==
    \/ \E t \in ClockReadings : TimePasses(t)
    \/ \E lane \in ReservedLanes, rid \in Requesters, d \in Durations :
          ReserveLaneCall(lane, rid, d)
    \/ \E v \in ReservedVertices, rid \in Requesters, d \in Durations :
          ReserveIntersectionCall(v, rid, d)
    \/ \E p \in LanePaths(nav_graph), rid \in Requesters :
          CheckPathAvailabilityCall(p, rid)
    \/ ClearExpiredReservationsCall

SpecTraffic == Init /\ [][TrafficNext]_vars

----------------------------------------------------------------------------
(* The two steps of TrafficManager.update called on their own, on a robot  *)
(* that was given tasks and made to wait, and on reserved lanes            *)

IdleNext ==
    \/ \E i \in 1..Len(robots), p \in LanePaths(nav_graph) :
          RobotAssignTaskCall(i, p)
    \/ \E i \in 1..Len(robots) : RobotSetWaitingCall(i)
    \/ ProcessWaitingRobotsCall
    \/ \E t \in ClockReadings : TimePasses(t)
    \/ \E lane \in ReservedLanes, rid \in Requesters, d \in Durations :
          ReserveLaneCall(lane, rid, d)
    \/ ClearExpiredReservationsCall

SpecIdle == InitApi /\ [][IdleNext]_vars

----------------------------------------------------------------------------
(* NavGraph.find_shortest_path on hand-built graphs                        *)

\* four vertices on a line, v1 on the other side of v0, and four vertices of
\* which v1 and v2 share their coordinates (lanes of length 0 between them)
LineVertices == << <<1, 0>>, <<0, 0>>, <<4, 0>>, <<6, 0>> >>

TwinVertices == << <<0, 0>>, <<3, 0>>, <<3, 0>>, <<3, 4>> >>

\* the directed lanes between two different vertices out of four
AllLanes == {l \in (0..3) \X (0..3) : l[1] # l[2]}

\* the lanes of S as the list of a graph file, ordered by start and end index
RECURSIVE LaneList(_)
LaneList(S) ==
    IF S = {} THEN <<>>
    ELSE LET l == CHOOSE x \in S : \A y \in S : 4 * x[1] + x[2] <= 4 * y[1] + y[2]
         IN  <<l>> \o LaneList(S \ {l})

PathGraphs ==
    {load_graph(vs, LaneList(S)) :
        vs \in {LineVertices, TwinVertices},
        S \in {T \in SUBSET AllLanes : Cardinality(T) <= MaxLanes}}

InitPath ==
    /\ nav_graph \in PathGraphs
    /\ robots = <<>>
    /\ robot_count = 0
    /\ occupied_lanes = EmptyDict
    /\ lane_reservations = EmptyDict
    /\ intersection_slots = EmptyDict
    /\ now = Rat(0)
    /\ last = NoCall
    /\ sums = {}
    /\ anim = AnimSleeping

\* nav_graph.find_shortest_path(start_idx, end_idx)
FindShortestPathCall(start_idx, end_idx) ==
    /\ last' = [start_idx |-> start_idx] @@
                Call("find_shortest_path", "None", end_idx, Rat(0), TRUE,
                     find_shortest_path(nav_graph, start_idx, end_idx), "none", <<>>)
    /\ UNCHANGED <<nav_graph, robots, robot_count, occupied_lanes,
                   lane_reservations, intersection_slots, now, sums, anim>>

PathNext ==
    \E start_idx \in VertexIdx(nav_graph), end_idx \in VertexIdx(nav_graph) :
        FindShortestPathCall(start_idx, end_idx)

SpecPath == InitPath /\ [][PathNext]_vars

----------------------------------------------------------------------------
(* FleetManager.is_lane_blocked asked between the ticks of two robots sent *)
(* along a common lane                                                     *)

\* fleet_manager.is_lane_blocked(start_idx, end_idx, robot_id)
IsLaneBlockedCall(start_idx, end_idx, robot_id) ==
    /\ last' = Call("is_lane_blocked", robot_id, None, Rat(0),
                    is_lane_blocked(occupied_lanes, start_idx, end_idx, robot_id),
                    <<start_idx, end_idx>>, "none", <<>>)
    /\ UNCHANGED <<nav_graph, robots, robot_count, occupied_lanes,
                   lane_reservations, intersection_slots, now, sums, anim>>

BlockedNext ==
    \/ \E dt \in RunDeltas : RunTick(dt)
    \/ \E a \in VertexIdx(nav_graph), b \in VertexIdx(nav_graph),
          rid \in RobotIds : IsLaneBlockedCall(a, b, rid)

SpecBlocked == InitPair /\ [][BlockedNext]_vars

----------------------------------------------------------------------------
(* The two threads of FleetGUI: the animation thread runs animation_loop,  *)
(* the main thread runs on_canvas_click; nothing orders the iterations of  *)
(* update_robots and the calls of the click handler                        *)

\* animation_loop reads the clock, update_robots clears the table and runs
\* its first loop
AnimSnapshot(delta_time) ==
    /\ anim.pc = "sleep"
    /\ RLe(RAdd(now, delta_time), Rat(MaxThreadTime))
    /\ now' = RAdd(now, delta_time)
    /\ occupied_lanes' = MarkOccupied(robots, 1, EmptyDict)
    /\ anim' = [pc |-> "update", i |-> 1, size |-> Len(robots),
                delta_time |-> delta_time, log |-> <<>>]
    /\ last' = Call("update_robots_snapshot", "None", None, delta_time, TRUE,
                    <<>>, "none", <<>>)
    /\ UNCHANGED <<nav_graph, robots, robot_count, lane_reservations,
                   intersection_slots, sums>>

\* one iteration of the second loop of update_robots
AnimUpdateRobot ==
    /\ anim.pc = "update"
    /\ Len(robots) = anim.size
    /\ anim.i <= anim.size
    /\ LET acc == UpdateStep([robots |-> robots, occupied_lanes |-> occupied_lanes,
                              log |-> anim.log], anim.i, anim.delta_time, nav_graph)
       IN  /\ robots' = acc.robots
           /\ occupied_lanes' = acc.occupied_lanes
           /\ anim' = [anim EXCEPT !.i = @ + 1, !.log = acc.log]
           /\ last' = Call("update_robots_step", robots[anim.i].id, None,
                           anim.delta_time, TRUE, <<>>, "none", acc.log)
    /\ UNCHANGED <<nav_graph, robot_count, lane_reservations,
                   intersection_slots, now, sums>>

\* the dict iterator finds that self.robots changed size: RuntimeError, which
\* nothing catches, ends the animation thread
AnimRuntimeError ==
    /\ anim.pc = "update"
    /\ Len(robots) # anim.size
    /\ anim' = [anim EXCEPT !.pc = "dead"]
    /\ last' = Call("update_robots", "None", None, anim.delta_time, FALSE, <<>>,
                    "RuntimeError", anim.log)
    /\ UNCHANGED <<nav_graph, robots, robot_count, occupied_lanes,
                   lane_reservations, intersection_slots, now, sums>>

\* update_robots returns; traffic_manager.update(current_time); sleep
AnimFinish ==
    /\ anim.pc = "update"
    /\ Len(robots) = anim.size
    /\ anim.i > anim.size
    /\ robots' = process_waiting_robots(robots, occupied_lanes, 1)
    /\ lane_reservations' = ClearExpired(lane_reservations, now)
    /\ intersection_slots' = ClearExpired(intersection_slots, now)
    /\ anim' = AnimSleeping
    /\ last' = Call("tick", "None", None, anim.delta_time, TRUE, <<>>, "none",
                    anim.log)
    /\ UNCHANGED <<nav_graph, robot_count, occupied_lanes, now, sums>>

ThreadsNext ==
    \/ \E dt \in Deltas : AnimSnapshot(dt)
    \/ AnimUpdateRobot
    \/ AnimRuntimeError
    \/ AnimFinish
    \/ \E v \in VertexIdx(nav_graph) : CreateRobot(v)
    \/ \E rid \in RobotIds, d \in VertexIdx(nav_graph) : AssignTask(rid, d)

SpecThreads == Init /\ [][ThreadsNext]_vars

----------------------------------------------------------------------------
(* Runs of the animation loop from two robots created at any two vertices *)
(* and given their tasks before the first tick                             *)

InitConvoy ==
    /\ nav_graph \in RunGraphs
    /\ \E v1 \in VertexIdx(nav_graph), v2 \in VertexIdx(nav_graph),
          d1 \in VertexIdx(nav_graph), d2 \in VertexIdx(nav_graph) :
          LET c1 == create_robot(<<>>, 0, nav_graph, v1)
              c2 == create_robot(c1.robots, c1.robot_count, nav_graph, v2)
              a1 == assign_task(c2.robots, nav_graph, RobotId(1), d1,
                                FreshUuid(NoTaskId))
              a2 == assign_task(a1.robots, nav_graph, RobotId(2), d2,
                                FreshUuid(NoTaskId))
          IN  /\ a1.ret /\ a2.ret
              /\ robots = a2.robots
              /\ robot_count = c2.robot_count
              /\ last = [op |-> "assign_task", rid |-> RobotId(2), vertex |-> d2,
                         delta |-> Rat(0), ret |-> a2.ret, path |-> a2.path,
                         raised |-> a2.raised, log |-> a2.log,
                         pre |-> [robots |-> a1.robots,
                                  robot_count |-> c2.robot_count,
                                  occupied_lanes |-> EmptyDict]]
    /\ occupied_lanes = EmptyDict
    /\ lane_reservations = EmptyDict
    /\ intersection_slots = EmptyDict
    /\ now = Rat(0)
    /\ sums = {Rat(0)}
    /\ anim = AnimSleeping

SpecConvoy == InitConvoy /\ [][RunNext]_vars

----------------------------------------------------------------------------
(* Calls of Robot.update on one robot, in any state and anywhere on a path, *)
(* with is_lane_blocked bound to a table that other robots may have filled  *)

States == {IDLE, MOVING, WAITING, CHARGING, TASK_COMPLETE}

Progresses == {Rat(0), <<1, 3>>, <<1, 2>>}

BatteryLevels == {Rat(100), <<1, 200>>, Rat(0)}

\* the tables that name R1 or R2 on some of the lanes of g
LaneTables(g) ==
    UNION {[S -> {RobotId(1), RobotId(2)}] :
              S \in SUBSET {<<g.lanes[k].start_idx, g.lanes[k].end_idx>> :
                               k \in 1..Len(g.lanes)}}

\* the point at fraction progress of the segment of path that starts at index
PositionOn(g, path, index, progress) ==
    IF index >= Len(path) - 1 THEN get_vertex_coords(g, At(path, index))
    ELSE LET start_pos == get_vertex_coords(g, At(path, index))
             end_pos == get_vertex_coords(g, At(path, index + 1))
         IN  <<RAdd(start_pos[1], RMul(RSub(end_pos[1], start_pos[1]), progress)),
               RAdd(start_pos[2], RMul(RSub(end_pos[2], start_pos[2]), progress))>>

\* robot R1 in state st at fraction progress of segment index of path
RobotOn(g, path, index, progress, st, battery) ==
    [RobotInit(RobotId(1), At(path, index),
               PositionOn(g, path, index, progress), ROBOT_COLORS[1])
        EXCEPT !.state = st, !.path = path, !.current_path_index = index,
               !.destination_idx = path[Len(path)],
               !.task_id = FreshUuid(NoTaskId), !.progress = progress,
               !.battery_level = battery]

InitUpdate ==
    /\ nav_graph \in RunGraphs
    /\ \E path \in LanePaths(nav_graph), st \in States, progress \in Progresses,
          battery \in BatteryLevels :
          \E index \in 0..(Len(path) - 1) :
              /\ index = Len(path) - 1 => progress = Rat(0)
              /\ robots = <<RobotOn(nav_graph, path, index, progress, st, battery)>>
    /\ robot_count = 1
    /\ occupied_lanes \in LaneTables(nav_graph)
    /\ lane_reservations = EmptyDict
    /\ intersection_slots = EmptyDict
    /\ now = Rat(0)
    /\ last = NoCall
    /\ sums = {Rat(0)}
    /\ anim = AnimSleeping

\* robot.update(delta_time, ..., self.is_lane_blocked) on robot R1
RobotUpdateCall(delta_time) ==
    /\ LET res == RobotUpdate(robots[1], delta_time, nav_graph, occupied_lanes)
       IN  /\ robots' = <<res.robot>>
           /\ last' = Call("update", robots[1].id, None, delta_time, res.changed,
                           <<>>, "none", <<>>)
    /\ UNCHANGED <<nav_graph, robot_count, occupied_lanes, lane_reservations,
                   intersection_slots, now, sums, anim>>

UpdateNext == \E dt \in RunDeltas : RobotUpdateCall(dt)

SpecUpdate == InitUpdate /\ [][UpdateNext]_vars

----------------------------------------------------------------------------
(* FleetManager.update_robots and the methods of TrafficManager called one *)
(* by one, in any order, on two robots that were given their tasks         *)

MaxAdvisoryTime == 3

\* fleet_manager.update_robots(delta_time) on its own
UpdateRobotsCall(delta_time) ==
    /\ RLe(RAdd(now, delta_time), Rat(MaxAdvisoryTime))
    /\ now' = RAdd(now, delta_time)
    /\ LET res == update_robots(robots, nav_graph, delta_time)
       IN  /\ robots' = res.robots
           /\ occupied_lanes' = res.occupied_lanes
           /\ last' = Call("update_robots", "None", None, delta_time, TRUE, <<>>,
                           "none", res.log)
    /\ UNCHANGED <<nav_graph, robot_count, lane_reservations,
                   intersection_slots, sums, anim>>

\* traffic_manager.update(time.time())
TrafficUpdateCall ==
    /\ lane_reservations' = ClearExpired(lane_reservations, now)
    /\ intersection_slots' = ClearExpired(intersection_slots, now)
    /\ robots' = process_waiting_robots(robots, occupied_lanes, 1)
    /\ last' = Call("traffic_update", "None", None, Rat(0), TRUE, <<>>, "none",
                    <<>>)
    /\ UNCHANGED <<nav_graph, robot_count, occupied_lanes, now, sums, anim>>

AdvisoryNext ==
    \/ \E dt \in Deltas : UpdateRobotsCall(dt)
    \/ TrafficUpdateCall
    \/ \E lane \in ReservedLanes, rid \in Requesters, d \in Durations :
          ReserveLaneCall(lane, rid, d)
    \/ \E d \in Durations : ReserveIntersectionCall(1, RobotId(2), d)
    \/ ClearExpiredReservationsCall

SpecAdvisory == InitConvoy /\ [][AdvisoryNext]_vars

----------------------------------------------------------------------------
(* NavGraph.find_shortest_path followed statement by statement: one step   *)
(* per pass of its two while loops; last holds the locals of the call      *)

MaxSearchLanes == 4

SearchGraphs ==
    {load_graph(vs, LaneList(S)) :
        vs \in {LineVertices, TwinVertices},
        S \in {T \in SUBSET AllLanes : Cardinality(T) <= MaxSearchLanes}}

InitSearch ==
    /\ nav_graph \in SearchGraphs
    /\ robots = <<>>
    /\ robot_count = 0
    /\ occupied_lanes = EmptyDict
    /\ lane_reservations = EmptyDict
    /\ intersection_slots = EmptyDict
    /\ now = Rat(0)
    /\ last = NoCall
    /\ sums = {}
    /\ anim = AnimSleeping

\* the locals of find_shortest_path: distances, previous and unvisited in st,
\* the vertices removed from unvisited so far, the path being built and the
\* vertex current of the second loop
Locals(op, start_idx, end_idx, st, removed, path, current) ==
    [start_idx |-> start_idx, st |-> st, removed |-> removed,
     current |-> current] @@
    Call(op, "None", end_idx, Rat(0), TRUE, path, "none", <<>>)

\* nav_graph.py 180-191: the early return and the initial locals
SearchStart(start_idx, end_idx) ==
    /\ last.op = "init"
    /\ LET st0 == [distances |-> [i \in VertexIdx(nav_graph) |->
                                     IF i = start_idx THEN 0 ELSE Infinity],
                   previous |-> [i \in VertexIdx(nav_graph) |-> None],
                   unvisited |-> VertexIdx(nav_graph)]
       IN  last' = IF start_idx = end_idx
                   THEN Locals("returned", start_idx, end_idx, st0, <<>>,
                               <<start_idx>>, None)
                   ELSE Locals("searching", start_idx, end_idx, st0, <<>>, <<>>,
                               None)
    /\ UNCHANGED <<nav_graph, robots, robot_count, occupied_lanes,
                   lane_reservations, intersection_slots, now, sums, anim>>

\* the first loop goes on: unvisited is not empty and the minimal vertex is
\* neither the target nor at distance infinity
SearchGoesOn(st, end_idx) ==
    /\ st.unvisited # {}
    /\ MinUnvisited(st.unvisited, st.distances) # end_idx
    /\ st.distances[MinUnvisited(st.unvisited, st.distances)] # Infinity

SearchIterationKeepsCurrent(g, st, current) ==
    Relax(g.adjacency_list[current], current, 1, st)

\* nav_graph.py 201-212: unvisited.remove(current) and the loop over the
\* neighbours of current
SearchIteration(g, st, current) ==
    Relax(g.adjacency_list[current], current, 1,
          [st EXCEPT !.unvisited = @ \ {current}])

\* one pass of the first while loop; passes beyond the number of vertices
\* plus one are not followed
SearchIterate ==
    /\ last.op = "searching"
    /\ SearchGoesOn(last.st, last.vertex)
    /\ Len(last.removed) <= NumVertices(nav_graph)
    /\ LET current == MinUnvisited(last.st.unvisited, last.st.distances)
       IN  last' = Locals("searching", last.start_idx, last.vertex,
                          SearchIteration(nav_graph, last.st, current),
                          Append(last.removed, current), <<>>, None)
    /\ UNCHANGED <<nav_graph, robots, robot_count, occupied_lanes,
                   lane_reservations, intersection_slots, now, sums, anim>>

\* the first loop ends (nav_graph.py 193, 198-199); 214-220: return [] when
\* the target has no predecessor, else start the walk back at the target
SearchEnd ==
    /\ last.op = "searching"
    /\ ~SearchGoesOn(last.st, last.vertex)
    /\ last' = IF last.st.previous[last.vertex] = None
                  /\ last.vertex # last.start_idx
               THEN Locals("returned", last.start_idx, last.vertex, last.st,
                           last.removed, <<>>, None)
               ELSE Locals("walking", last.start_idx, last.vertex, last.st,
                           last.removed, <<>>, last.vertex)
    /\ UNCHANGED <<nav_graph, robots, robot_count, occupied_lanes,
                   lane_reservations, intersection_slots, now, sums, anim>>

\* one pass of the second while loop (nav_graph.py 223-225); passes beyond
\* the number of vertices plus one are not followed
WalkBackStep ==
    /\ last.op = "walking"
    /\ last.current # None
    /\ Len(last.path) <= NumVertices(nav_graph)
    /\ last' = Locals("walking", last.start_idx, last.vertex, last.st,
                      last.removed, Append(last.path, last.current),
                      last.st.previous[last.current])
    /\ UNCHANGED <<nav_graph, robots, robot_count, occupied_lanes,
                   lane_reservations, intersection_slots, now, sums, anim>>

\* return path[::-1]
WalkBackReturn ==
    /\ last.op = "walking"
    /\ last.current = None
    /\ last' = Locals("returned", last.start_idx, last.vertex, last.st,
                      last.removed, Reverse(last.path), None)
    /\ UNCHANGED <<nav_graph, robots, robot_count, occupied_lanes,
                   lane_reservations, intersection_slots, now, sums, anim>>

SearchNext ==
    \/ \E start_idx \in VertexIdx(nav_graph), end_idx \in VertexIdx(nav_graph) :
          SearchStart(start_idx, end_idx)
    \/ SearchIterate
    \/ SearchEnd
    \/ WalkBackStep
    \/ WalkBackReturn

\* the call runs on once started: each step is taken when it is the next one
SpecSearch == InitSearch /\ [][SearchNext]_vars /\ WF_vars(SearchNext)

----------------------------------------------------------------------------
(* The animation loop running on and on, from two robots that were given   *)
(* their tasks: no createRobot, no assignTask, ticks only                  *)

\* the runs are followed up to this time
MaxLiveTime == 16

LiveTick(delta_time) == TickBody(delta_time, MaxLiveTime) /\ UNCHANGED sums

LiveNext == \E dt \in RunDeltas : LiveTick(dt)

\* the clock step of a pass: every LiveTick makes it and it is possible exactly
\* when a LiveTick is
ClockAdvances ==
    \E dt \in RunDeltas :
        /\ RLe(RAdd(now, dt), Rat(MaxLiveTime))
        /\ now' = RAdd(now, dt)

\* the while loop of animation_loop keeps making passes: a pass is made
\* whenever one is possible
SpecLive == InitConvoy /\ [][LiveNext]_vars /\ WF_now(ClockAdvances)

----------------------------------------------------------------------------
(* Notions used by the properties *)

\* the fleet before the last call
Pre(i) == last.pre.robots[i]

Robots == 1..Len(robots)

\* the path segment a moving or waiting robot is on or about to enter
Segment(r) ==
    IF r.state \in {MOVING, WAITING} /\ r.path # <<>>
       /\ r.current_path_index < Len(r.path) - 1
    THEN <<At(r.path, r.current_path_index), At(r.path, r.current_path_index + 1)>>
    ELSE NoLane

StrictlyInside(r) ==
    Segment(r) # NoLane /\ RLt(Rat(0), r.progress) /\ RLt(r.progress, Rat(1))

\* robot i went forward in the last tick
Advanced(i) ==
    \/ robots[i].current_path_index > Pre(i).current_path_index
    \/ RLt(Pre(i).progress, robots[i].progress)

\* the vertices that directed lanes lead to from the vertices of S
RECURSIVE ReachableFrom(_, _)
ReachableFrom(g, S) ==
    LET T == S \cup {g.lanes[k].end_idx :
                        k \in {n \in 1..Len(g.lanes) : g.lanes[n].start_idx \in S}}
    IN  IF T = S THEN S ELSE ReachableFrom(g, T)

\* the target of the last assign_task call, before the call
PreTarget == last.pre.robots[IndexOf(last.pre.robots, last.rid)]

Target == robots[IndexOf(robots, last.rid)]

----------------------------------------------------------------------------
(* C1 *)

\* C1: two robots created at the same vertex and given, before any tick,
\* tasks along a common lane: the table records at most one of them for a
\* lane; when both have the same current segment at the start of a tick,
\* exactly one advances and the other is Waiting at its end; and no robot
\* advances on a segment in a tick at whose start the other robot is strictly
\* inside that segment.
C1_SharedLaneExclusion ==
    /\ \A lane \in DOMAIN occupied_lanes :
          Cardinality({i \in Robots : robots[i].id = occupied_lanes[lane]}) <= 1
    /\ last.op = "tick" =>
          \A i \in Robots, j \in Robots :
              (i # j /\ Segment(Pre(i)) # NoLane
                     /\ Segment(Pre(i)) = Segment(Pre(j))) =>
                  /\ \/ Advanced(i) /\ ~Advanced(j) /\ robots[j].state = WAITING
                     \/ Advanced(j) /\ ~Advanced(i) /\ robots[i].state = WAITING
                  /\ StrictlyInside(Pre(j)) => ~Advanced(i)

----------------------------------------------------------------------------
(* C2 *)

\* C2: at every tick boundary each directed lane has at most one robot
\* strictly inside it (Moving or Waiting on that segment, 0 < progress < 1).
C2_OneRobotInsideALane ==
    \A i \in Robots, j \in Robots :
        (i # j /\ StrictlyInside(robots[i]) /\ StrictlyInside(robots[j]))
            => Segment(robots[i]) # Segment(robots[j])

----------------------------------------------------------------------------
(* C3 *)

\* robot w was Waiting before lane L at the start of the last tick, no other
\* robot was Moving on L then and no robot processed before w entered L
LaneClearedFor(w) ==
    /\ last.op = "tick"
    /\ Pre(w).state = WAITING
    /\ Segment(Pre(w)) # NoLane
    /\ \A j \in Robots \ {w} : get_current_lane(Pre(j)) # Segment(Pre(w))
    /\ \A j \in 1..(w - 1) : get_current_lane(robots[j]) # Segment(Pre(w))

----------------------------------------------------------------------------
(* C4 *)

AssignMustFail ==
    \/ ~HasRobot(last.pre.robots, last.rid)
    \/ PreTarget.state \in {MOVING, WAITING}
    \/ last.vertex \notin ReachableFrom(nav_graph, {PreTarget.position_idx})

\* C4: FleetManager.assign_task returns false and leaves the robots, the
\* table and the id counter as they were when the robot is unknown, Moving
\* or Waiting, or the destination is unreachable; it returns true otherwise.
C4_AssignTaskRejects ==
    last.op = "assign_task" =>
        /\ last.ret = ~AssignMustFail
        /\ AssignMustFail => Fleet = last.pre

C4_Witness ==
    /\ last.op = "assign_task"
    /\ last.ret = FALSE
    /\ HasRobot(robots, last.rid)
    /\ Target.state = WAITING
    /\ Fleet = last.pre

----------------------------------------------------------------------------
(* C5 *)

\* C5: Robot.assign_task on a Moving or Waiting robot fails with an error and
\* replaces neither path, path index, progress, destination nor state.
C5_RobotAssignRejectsBusy ==
    (last.op = "robot_assign_task" /\ PreTarget.state \in {MOVING, WAITING}) =>
        /\ last.raised # "none"
        /\ Target.path = PreTarget.path
        /\ Target.current_path_index = PreTarget.current_path_index
        /\ Target.progress = PreTarget.progress
        /\ Target.destination_idx = PreTarget.destination_idx
        /\ Target.state = PreTarget.state

----------------------------------------------------------------------------
(* C6 *)

\* C6: Robot.assign_task with a path that does not start at the robot's
\* vertex fails with an error and leaves destination, path, path index,
\* task id and state as they were.
C6_RobotAssignRejectsWrongStart ==
    (last.op = "robot_assign_task" /\ At(last.path, 0) # PreTarget.position_idx) =>
        /\ last.raised # "none"
        /\ Target.destination_idx = PreTarget.destination_idx
        /\ Target.path = PreTarget.path
        /\ Target.current_path_index = PreTarget.current_path_index
        /\ Target.task_id = PreTarget.task_id
        /\ Target.state = PreTarget.state

----------------------------------------------------------------------------
(* C7 *)

\* C7: the path FleetManager.assign_task computes for an Idle or TaskComplete
\* robot is empty or starts at the robot's vertex, and Robot.assign_task
\* raises no path-mismatch error under FleetManager.assign_task.
C7_ComputedPathStartsAtRobot ==
    (/\ last.op = "assign_task"
     /\ HasRobot(last.pre.robots, last.rid)
     /\ PreTarget.state \in {IDLE, TASK_COMPLETE}) =>
        /\ last.path = <<>> \/ At(last.path, 0) = PreTarget.position_idx
        /\ last.raised = "none"

C7_Witness ==
    /\ last.op = "assign_task"
    /\ HasRobot(last.pre.robots, last.rid)
    /\ PreTarget.state = TASK_COMPLETE
    /\ PreTarget.current_path_index > 0
    /\ Len(last.path) > 1
    /\ At(last.path, 0) = PreTarget.position_idx

----------------------------------------------------------------------------
(* C8 *)

\* p leads from vertex a to vertex b along lanes of g
FollowsLanes(g, p, a, b) ==
    /\ p # <<>>
    /\ p[1] = a
    /\ p[Len(p)] = b
    /\ \A k \in 1..(Len(p) - 1) : IsLane(g, p[k], p[k + 1])

\* C8: a successful assign_task stores a path from the robot's vertex to the
\* destination with path index 0 and progress 0, leaves vertex and position
\* as they were, and sets Moving for a path of more than one vertex and
\* TaskComplete for the single current vertex; a task to the current vertex
\* of an Idle or TaskComplete robot succeeds.
C8_AssignTaskEffect ==
    last.op = "assign_task" =>
        /\ last.ret =>
              /\ PreTarget.state \in {IDLE, TASK_COMPLETE}
              /\ Target.path = last.path
              /\ FollowsLanes(nav_graph, Target.path, PreTarget.position_idx,
                              last.vertex)
              /\ Target.destination_idx = last.vertex
              /\ Target.current_path_index = 0
              /\ Target.progress = Rat(0)
              /\ Target.position_idx = PreTarget.position_idx
              /\ Target.position = PreTarget.position
              /\ Target.state = IF Len(Target.path) > 1 THEN MOVING
                                ELSE TASK_COMPLETE
              /\ Len(Target.path) = 1 <=> last.vertex = PreTarget.position_idx
        /\ (/\ HasRobot(last.pre.robots, last.rid)
            /\ PreTarget.state \in {IDLE, TASK_COMPLETE}
            /\ last.vertex = PreTarget.position_idx) =>
              last.ret /\ Target.state = TASK_COMPLETE

C8_Witness ==
    /\ last.op = "assign_task"
    /\ last.ret
    /\ PreTarget.state = TASK_COMPLETE
    /\ PreTarget.current_path_index > 0
    /\ Target.state = MOVING
    /\ Target.current_path_index = 0

----------------------------------------------------------------------------
(* C9 *)

\* the time a robot of speed 1 needs for the first i segments of path p
RECURSIVE PathLength(_, _, _)
PathLength(g, p, i) ==
    IF i = 0 THEN 0
    ELSE PathLength(g, p, i - 1) + calculate_distance(g.vertices, p[i], p[i + 1])

\* the ticks so far ended at every vertex arrival time up to the i-th, and
\* the last of them ended now
TickedAtArrivals(g, p, i) ==
    /\ \A j \in 1..i : Rat(PathLength(g, p, j)) \in sums
    /\ now = Rat(PathLength(g, p, i))

\* C9: a lone robot of speed 1 whose ticks end at the arrival times
\* l1, l1+l2, ... is at the i-th path vertex, Moving with progress 0, after
\* l1+...+li seconds for each i < k and TaskComplete at the final vertex
\* after l1+...+lk seconds.
C9_LoneRobotArrivalTimes ==
    LET r == robots[1]
        k == Len(r.path) - 1
    IN  \A i \in 1..k :
            TickedAtArrivals(nav_graph, r.path, i) =>
                /\ r.position_idx = At(r.path, i)
                /\ r.position = get_vertex_coords(nav_graph, At(r.path, i))
                /\ r.current_path_index = i
                /\ r.progress = Rat(0)
                /\ r.state = IF i < k THEN MOVING ELSE TASK_COMPLETE

C9_Witness ==
    /\ Len(robots[1].path) = 3
    /\ TickedAtArrivals(nav_graph, robots[1].path, 2)
    /\ robots[1].state = TASK_COMPLETE
    /\ robots[1].position_idx = At(robots[1].path, 2)

----------------------------------------------------------------------------
(* C10 *)

\* C10: process_waiting_robots makes Moving every Waiting robot whose pending
\* lane is not reported blocked for it, and leaves every other robot as it was.
C10_ProcessWaitingResumes ==
    last.op = "process_waiting_robots" =>
        \A i \in Robots :
            IF /\ Pre(i).state = WAITING
               /\ Segment(Pre(i)) # NoLane
               /\ ~is_lane_blocked(last.pre.occupied_lanes, Segment(Pre(i))[1],
                                   Segment(Pre(i))[2], Pre(i).id)
            THEN robots[i] = [Pre(i) EXCEPT !.state = MOVING]
            ELSE robots[i] = Pre(i)

----------------------------------------------------------------------------
(* C11 *)

\* the table and the key of the last reserve_lane or reserve_intersection call
PreTable ==
    IF last.op = "reserve_lane" THEN last.tables.lane_reservations
    ELSE last.tables.intersection_slots

PostTable ==
    IF last.op = "reserve_lane" THEN lane_reservations ELSE intersection_slots

ReserveKey == IF last.op = "reserve_lane" THEN last.path ELSE last.vertex

\* before the last reserve call its key was held by another robot
HeldByOther == ReserveKey \in DOMAIN PreTable /\ PreTable[ReserveKey].robot_id # last.rid

TablesUnchanged ==
    /\ lane_reservations = last.tables.lane_reservations
    /\ intersection_slots = last.tables.intersection_slots

\* C11: reserve_lane and reserve_intersection refuse, changing no table, a
\* request for an entry held by another robot whose expiry lies after the
\* time of the call, and grant every other request, setting the holder and
\* expiry = time of the call + duration; a request made 0.1s after another
\* robot's 1.0s lease is refused and one made 1.1s after it is granted.
C11_ReserveGrantsLease ==
    last.op \in {"reserve_lane", "reserve_intersection"} =>
        /\ IF HeldByOther /\ RLt(last.tables.now, PreTable[ReserveKey].expiry_time)
           THEN ~last.ret /\ TablesUnchanged
           ELSE /\ last.ret
                /\ DOMAIN PostTable = DOMAIN PreTable \cup {ReserveKey}
                /\ PostTable[ReserveKey] =
                       [robot_id |-> last.rid,
                        expiry_time |-> RAdd(last.tables.now, last.delta)]
                /\ \A k \in DOMAIN PreTable \ {ReserveKey} : PostTable[k] = PreTable[k]
                /\ last.op = "reserve_lane" =>
                       intersection_slots = last.tables.intersection_slots
                /\ last.op = "reserve_intersection" =>
                       lane_reservations = last.tables.lane_reservations
        /\ (HeldByOther /\ PreTable[ReserveKey].expiry_time = Rat(1)) =>
              /\ last.tables.now = <<1, 10>> => ~last.ret
              /\ last.tables.now = <<11, 10>> => last.ret

\* R2 is granted the lane 1.1s after R1's 1.0s lease taken at time 0
C11_Witness ==
    /\ last.op = "reserve_lane"
    /\ HeldByOther
    /\ PreTable[ReserveKey].expiry_time = Rat(1)
    /\ last.tables.now = <<11, 10>>
    /\ last.ret
    /\ lane_reservations[ReserveKey] = [robot_id |-> last.rid, expiry_time |-> <<21, 10>>]

----------------------------------------------------------------------------
(* C12 *)

\* at the time of the last call the entry under key was a lease of another
\* robot than the caller that had not expired
LiveLeaseOfOther(table, key) ==
    /\ key \in DOMAIN table
    /\ table[key].robot_id # last.rid
    /\ RLt(last.tables.now, table[key].expiry_time)

\* C12: check_path_availability returns false iff a consecutive lane of the
\* path or a vertex of the path, the final vertex and the vertex of a
\* single-vertex path included, carries a live lease of another robot; it
\* changes no reservation table.
C12_CheckPathAvailability ==
    last.op = "check_path_availability" =>
        /\ last.ret = FALSE <=>
              \/ \E i \in 1..(Len(last.path) - 1) :
                    LiveLeaseOfOther(last.tables.lane_reservations,
                                     <<last.path[i], last.path[i + 1]>>)
              \/ \E i \in 1..Len(last.path) :
                    LiveLeaseOfOther(last.tables.intersection_slots, last.path[i])
        /\ TablesUnchanged

----------------------------------------------------------------------------
(* C13 *)

\* a reserve request for key made at the time of the last call by a robot
\* other than the holder is refused on table pre
RequestRefused(pre, key) ==
    \E rid \in Requesters \ {pre[key].robot_id}, d \in Durations :
        ~ReserveEntry(pre, key, rid, d, last.tables.now).ret

\* post holds exactly the entries of pre that refuse a request of another robot
KeepsLiveLeases(pre, post) ==
    /\ DOMAIN post \subseteq DOMAIN pre
    /\ \A key \in DOMAIN pre :
          /\ key \in DOMAIN post <=> RequestRefused(pre, key)
          /\ key \in DOMAIN post => post[key] = pre[key]

\* C13: after clear_expired_reservations(now) the tables hold exactly the
\* leases live at now: an entry is kept iff a reserve request made at now by
\* a different robot would be refused and purged iff it would be granted,
\* the entry with expiry_time = now included.
C13_ClearKeepsLiveLeases ==
    last.op = "clear_expired_reservations" =>
        /\ KeepsLiveLeases(last.tables.lane_reservations, lane_reservations)
        /\ KeepsLiveLeases(last.tables.intersection_slots, intersection_slots)

----------------------------------------------------------------------------
(* C14 *)

NoneExpired(table) ==
    \A key \in DOMAIN table : ~RLt(table[key].expiry_time, last.tables.now)

\* C14: process_waiting_robots called when no robot is Waiting, and
\* clear_expired_reservations called when no entry has expired, change no
\* robot and no table and log nothing; and a second call of either, at the
\* same time, changes nothing after the first.
C14_TrafficStepsIdempotent ==
    /\ (last.op = "process_waiting_robots"
          /\ \A i \in 1..Len(last.pre.robots) : Pre(i).state # WAITING) =>
            Fleet = last.pre /\ TablesUnchanged /\ last.log = <<>>
    /\ (last.op = "clear_expired_reservations"
          /\ NoneExpired(last.tables.lane_reservations)
          /\ NoneExpired(last.tables.intersection_slots)) =>
            Fleet = last.pre /\ TablesUnchanged /\ last.log = <<>>
    /\ last.op = "process_waiting_robots" =>
            process_waiting_robots(robots, occupied_lanes, 1) = robots
    /\ (last.op = "clear_expired_reservations" /\ now = last.tables.now) =>
            /\ ClearExpired(lane_reservations, now) = lane_reservations
            /\ ClearExpired(intersection_slots, now) = intersection_slots

\* a lease that has not expired is kept by clear_expired_reservations while a
\* robot is on its way
C14_Witness ==
    /\ last.op = "clear_expired_reservations"
    /\ last.tables.lane_reservations # EmptyDict
    /\ NoneExpired(last.tables.lane_reservations)
    /\ lane_reservations = last.tables.lane_reservations
    /\ \E i \in Robots : robots[i].state = MOVING

----------------------------------------------------------------------------
(* C15 *)

\* one more lane: from the least lengths d of the walks of at most n lanes
\* to those of at most n + 1 lanes, Infinity where there is no walk
LongerWalks(g, d) ==
    [v \in VertexIdx(g) |->
        LET via == {d[g.lanes[k].start_idx] + g.lanes[k].length :
                       k \in {j \in 1..Len(g.lanes) :
                                 /\ g.lanes[j].end_idx = v
                                 /\ d[g.lanes[j].start_idx] # Infinity}}
            cands == via \cup (IF d[v] # Infinity THEN {d[v]} ELSE {})
        IN  IF cands = {} THEN Infinity
            ELSE CHOOSE x \in cands : \A y \in cands : x <= y]

RECURSIVE WalkDistances(_, _, _)
WalkDistances(g, d, n) ==
    IF n = 0 THEN d ELSE WalkDistances(g, LongerWalks(g, d), n - 1)

\* the least length of a directed walk from s to e
MinWalkLength(g, s, e) ==
    WalkDistances(g, [v \in VertexIdx(g) |-> IF v = s THEN 0 ELSE Infinity],
                  NumVertices(g))[e]

\* C15: for end reachable from start, find_shortest_path returns a sequence
\* that begins with start, ends with end, follows directed lanes of the
\* graph, and whose summed lane length is the minimum over all directed
\* walks from start to end.
C15_ShortestPathIsMinimal ==
    (/\ last.op = "find_shortest_path"
     /\ last.vertex \in ReachableFrom(nav_graph, {last.start_idx})) =>
        /\ FollowsLanes(nav_graph, last.path, last.start_idx, last.vertex)
        /\ PathLength(nav_graph, last.path, Len(last.path) - 1)
              = MinWalkLength(nav_graph, last.start_idx, last.vertex)

\* the path found goes through a vertex farther from start than the vertex v
\* of another, longer, walk to the same end
C15_Witness ==
    /\ last.op = "find_shortest_path"
    /\ Len(last.path) = 3
    /\ \E v \in VertexIdx(nav_graph) :
          /\ FollowsLanes(nav_graph, <<last.start_idx, v, last.vertex>>,
                          last.start_idx, last.vertex)
          /\ PathLength(nav_graph, <<last.start_idx, v, last.vertex>>, 2)
                > PathLength(nav_graph, last.path, 2)
          /\ PathLength(nav_graph, <<last.start_idx, v, last.vertex>>, 1)
                < PathLength(nav_graph, last.path, 1)

----------------------------------------------------------------------------
(* C16 *)

\* C16: find_shortest_path(v, v) is [v], and for start # end the result is
\* empty iff no directed walk leads from start to end.
C16_EmptyIffUnreachable ==
    last.op = "find_shortest_path" =>
        IF last.start_idx = last.vertex THEN last.path = <<last.vertex>>
        ELSE last.path = <<>> <=>
                last.vertex \notin ReachableFrom(nav_graph, {last.start_idx})

\* no path although lanes lead from end back to start
C16_Witness ==
    /\ last.op = "find_shortest_path"
    /\ last.start_idx # last.vertex
    /\ last.path = <<>>
    /\ last.start_idx \in ReachableFrom(nav_graph, {last.vertex})
    /\ \E k \in 1..Len(nav_graph.lanes) :
          nav_graph.lanes[k].start_idx = last.start_idx

----------------------------------------------------------------------------
(* C17 *)

\* C17: is_lane_blocked(start, end, robot_id) is true iff occupied_lanes maps
\* (start, end) to an id other than robot_id, false for a lane that is
\* unmapped or mapped to the requester, and changes nothing.
C17_IsLaneBlocked ==
    last.op = "is_lane_blocked" =>
        /\ last.ret <=> /\ last.path \in DOMAIN occupied_lanes
                        /\ occupied_lanes[last.path] # last.rid
        /\ Fleet = last.pre
        /\ TablesUnchanged

\* a robot asks for the lane it occupies itself
C17_Witness ==
    /\ last.op = "is_lane_blocked"
    /\ last.path \in DOMAIN occupied_lanes
    /\ occupied_lanes[last.path] = last.rid
    /\ ~last.ret
    /\ \E i \in Robots : robots[i].id = last.rid /\ get_current_lane(robots[i]) = last.path

----------------------------------------------------------------------------
(* C18 *)

----------------------------------------------------------------------------
(* C19 *)

\* C19: create_robot and assign_task take effect only between ticks: while
\* update_robots is between its snapshot and its return the robot collection
\* has the size it had at the snapshot, and no command has changed a robot.
C19_TickIsAtomic ==
    /\ (last.op \in {"create_robot", "assign_task"} /\ Fleet # last.pre) =>
          anim.pc = "sleep"
    /\ anim.pc = "update" => Len(robots) = anim.size

----------------------------------------------------------------------------
(* C20 *)

\* C20: when a tick returns, occupied_lanes maps lane (a, b) to robot r iff r
\* is Moving with current segment (a, b); it has no entry for a robot that
\* left the lane, completed its task or became Waiting during the tick.
C20_TableIsCurrentLanes ==
    last.op = "tick" =>
        /\ \A lane \in DOMAIN occupied_lanes :
              \E i \in Robots : robots[i].id = occupied_lanes[lane]
        /\ \A i \in Robots, lane \in VertexIdx(nav_graph) \X VertexIdx(nav_graph) :
              (lane \in DOMAIN occupied_lanes /\ occupied_lanes[lane] = robots[i].id)
                  <=> (robots[i].state = MOVING /\ Segment(robots[i]) = lane)

----------------------------------------------------------------------------
(* C21 *)

\* the orders in which n robots can be processed
Orders(n) == {p \in [1..n -> 1..n] : \A i, j \in 1..n : p[i] = p[j] => i = j}

\* the fleet rs handed to update_robots in the order p
InOrder(rs, p) == [i \in 1..Len(rs) |-> rs[p[i]]]

\* C21: the outcome of a tick does not depend on the order in which the robots
\* are processed: whatever the order of the robots of the pre-tick fleet,
\* update_robots leaves every robot in the state the tick left it in
C21_TickOrderIndependent ==
    last.op = "tick" =>
        \A p \in Orders(Len(last.pre.robots)) :
            LET res == update_robots(InOrder(last.pre.robots, p), nav_graph,
                                     last.delta).robots
            IN  \A i \in 1..Len(res) : res[i] = robots[p[i]]

----------------------------------------------------------------------------
(* C22 *)

\* the table as the first loop of update_robots fills it from the fleet rs
Snapshot(rs) == MarkOccupied(rs, 1, EmptyDict)

\* in the last tick robot a, recorded on lane L by the snapshot, left L for
\* its next segment or completed its task
LeftLane(a, L) ==
    /\ L \in DOMAIN Snapshot(last.pre.robots)
    /\ Snapshot(last.pre.robots)[L] = Pre(a).id
    /\ get_current_lane(Pre(a)) = L
    /\ robots[a].current_path_index > Pre(a).current_path_index

\* robot r still has lane L ahead on its path
HeadsFor(r, L) ==
    /\ r.state \in {MOVING, WAITING}
    /\ \E j \in r.current_path_index..(Len(r.path) - 2) :
          <<At(r.path, j), At(r.path, j + 1)>> = L

\* robot c, processed after robot a, asked for the lane L that a left in the
\* last tick
AskedForVacated(a, c, L) ==
    /\ last.op = "tick"
    /\ a < c
    /\ LeftLane(a, L)
    /\ Segment(Pre(c)) = L

\* C22: a lane vacated during a tick stays blocked for the rest of that tick.
\* If robot a is recorded on lane L in the pre-tick snapshot and leaves L in
\* the tick, a robot c processed after a that asks for L is reported blocked:
\* it ends the tick Waiting where it was and the table still names another
\* robot on L. In the next tick, when nobody else heads for L, the snapshot
\* reports L free to c and c leaves Waiting.
C22_VacatedLaneStaysBlocked ==
    /\ [](\A a \in Robots, c \in Robots, L \in DOMAIN occupied_lanes \cup
                                             DOMAIN Snapshot(last.pre.robots) :
            AskedForVacated(a, c, L) =>
                /\ robots[c].state = WAITING
                /\ ~Advanced(c)
                /\ is_lane_blocked(occupied_lanes, L[1], L[2], robots[c].id))
    /\ [][\A a \in Robots, c \in Robots, L \in DOMAIN occupied_lanes :
            (/\ AskedForVacated(a, c, L)
             /\ \A k \in Robots \ {c} : ~HeadsFor(robots[k], L)
             /\ last'.op = "tick")
            => /\ ~is_lane_blocked(Snapshot(robots), L[1], L[2], robots[c].id)
               /\ robots'[c].state # WAITING
               /\ (robots'[c].current_path_index > robots[c].current_path_index
                   \/ RLt(robots[c].progress, robots'[c].progress))]_vars

C22_Witness ==
    \E a \in Robots, c \in Robots, L \in DOMAIN occupied_lanes :
        /\ AskedForVacated(a, c, L)
        /\ robots[c].state = WAITING
        /\ \A k \in Robots \ {c} : ~HeadsFor(robots[k], L)

----------------------------------------------------------------------------
(* C23 *)

\* the state changes assign_task makes
ChangesByAssign ==
    {<<IDLE, MOVING>>, <<IDLE, TASK_COMPLETE>>, <<TASK_COMPLETE, MOVING>>,
     <<TASK_COMPLETE, TASK_COMPLETE>>}

\* the state changes one Robot.update makes; a Waiting robot that resumes and
\* reaches its destination in the same update goes through Moving
ChangesInTick ==
    {<<MOVING, WAITING>>, <<WAITING, MOVING>>, <<MOVING, TASK_COMPLETE>>}

TwoChangesInTick == {<<WAITING, TASK_COMPLETE>>}

\* C23: every state change of a robot is Idle->Moving, Idle->TaskComplete,
\* TaskComplete->Moving or TaskComplete->TaskComplete, made by assign_task on
\* that robot, or Moving->Waiting, Waiting->Moving or Moving->TaskComplete,
\* made inside a tick; a robot is created Idle, no robot is ever Charging and
\* no robot returns to Idle
C23_StateTransitions ==
    /\ \A i \in Robots : robots[i].state \in {IDLE, MOVING, WAITING, TASK_COMPLETE}
    /\ \A i \in Robots :
          IF i > Len(last.pre.robots) THEN robots[i].state = IDLE
          ELSE LET change == <<Pre(i).state, robots[i].state>>
               IN  /\ robots[i].state = IDLE => Pre(i).state = IDLE
                   /\ change[1] # change[2] =>
                         \/ /\ last.op = "assign_task"
                            /\ last.rid = robots[i].id
                            /\ change \in ChangesByAssign
                         \/ /\ last.op = "tick"
                            /\ change \in ChangesInTick \cup TwoChangesInTick

C23_Witness ==
    /\ last.op = "tick"
    /\ \E i \in Robots : <<Pre(i).state, robots[i].state>> = <<WAITING, MOVING>>
    /\ \E i \in Robots : robots[i].state = TASK_COMPLETE

----------------------------------------------------------------------------
(* C24 *)

\* the lane from a to b is refused to robot r by the table of the last call
Refused(r) ==
    /\ get_next_vertex(r) # None
    /\ is_lane_blocked(last.pre.occupied_lanes, At(r.path, r.current_path_index),
                       get_next_vertex(r), r.id)

\* the lane ahead of robot r exists and is granted to it
Granted(r) == get_next_vertex(r) # None /\ ~Refused(r)

\* C24: Robot.update on a robot that is Idle, TaskComplete or Charging, or
\* that is Waiting for a lane still refused to it, returns false and changes
\* no field of the robot
C24_UpdateIsNoOp ==
    (/\ last.op = "update"
     /\ \/ Pre(1).state \in {IDLE, TASK_COMPLETE, CHARGING}
        \/ Pre(1).state = WAITING /\ Refused(Pre(1)))
    => last.ret = FALSE /\ robots[1] = Pre(1)

C24_Witness ==
    /\ last.op = "update"
    /\ Pre(1).state \in {IDLE, TASK_COMPLETE, CHARGING}
    /\ Granted(Pre(1))
    /\ last.ret = FALSE

C24_WitnessWaiting ==
    /\ last.op = "update"
    /\ Pre(1).state = WAITING /\ Refused(Pre(1))
    /\ RLt(Rat(0), Pre(1).progress)
    /\ last.ret = FALSE

----------------------------------------------------------------------------
(* C25 *)

\* the progress of robot r after delta_time more on its segment, before it is
\* clamped: progress + speed * delta_time / length
ProgressAfter(r, delta_time) ==
    RAdd(r.progress,
         RDiv(RMul(r.speed, delta_time),
              Rat(calculate_distance(nav_graph.vertices,
                                     At(r.path, r.current_path_index),
                                     get_next_vertex(r)))))

\* robot R1 went from pre along its segment in the last call: its progress grew
\* by speed * delta_time / length, or it reached the next vertex of its path
AdvancedFrom(pre) ==
    IF RLt(ProgressAfter(pre, last.delta), Rat(1))
    THEN /\ robots[1].state = MOVING
         /\ robots[1].progress = ProgressAfter(pre, last.delta)
         /\ RLt(pre.progress, robots[1].progress)
         /\ robots[1].current_path_index = pre.current_path_index
         /\ robots[1].position_idx = pre.position_idx
    ELSE /\ robots[1].current_path_index = pre.current_path_index + 1
         /\ robots[1].position_idx = get_next_vertex(pre)
         /\ robots[1].progress = Rat(0)
         /\ robots[1].state =
               IF robots[1].current_path_index = Len(pre.path) - 1
               THEN TASK_COMPLETE ELSE MOVING

\* C25: Robot.update on a Waiting robot whose pending lane is not refused
\* makes it Moving and moves it along the lane in the same call: its progress
\* grows by speed * delta_time / length, or it reaches the next vertex (where
\* it completes its task if that vertex is the last of the path); the call
\* returns true
C25_WaitingResumesAndAdvances ==
    (last.op = "update" /\ Pre(1).state = WAITING /\ Granted(Pre(1)))
    => last.ret = TRUE /\ AdvancedFrom(Pre(1))

C25_Witness ==
    /\ last.op = "update"
    /\ Pre(1).state = WAITING /\ Granted(Pre(1))
    /\ robots[1].state = MOVING
    /\ RLt(Pre(1).progress, robots[1].progress)

----------------------------------------------------------------------------
(* C26 *)

\* C26: Robot.update on a Moving robot whose lane ahead is refused makes it
\* Waiting and returns true; position, vertex, path index, progress, battery
\* and every other field keep their values
C26_BlockedBecomesWaiting ==
    (last.op = "update" /\ Pre(1).state = MOVING /\ Refused(Pre(1)))
    => last.ret = TRUE /\ robots[1] = [Pre(1) EXCEPT !.state = WAITING]

C26_Witness ==
    /\ last.op = "update"
    /\ Pre(1).state = MOVING /\ Refused(Pre(1))
    /\ RLt(Rat(0), Pre(1).progress)
    /\ robots[1].state = WAITING

----------------------------------------------------------------------------
(* C27 *)

\* C27: when the progress of a Moving robot reaches 1 in a call of
\* Robot.update, the robot is at the next vertex of its path, at that vertex's
\* coordinates, its path index is one more and its progress is 0; it is
\* TaskComplete iff the new index is the last index of the path, and Moving
\* otherwise. No call raises the path index by more than one.
C27_ArrivalAtVertex ==
    last.op = "update" =>
        /\ robots[1].current_path_index <= Pre(1).current_path_index + 1
        /\ (/\ Pre(1).state = MOVING /\ Granted(Pre(1))
            /\ RLe(Rat(1), ProgressAfter(Pre(1), last.delta)))
           => /\ robots[1].position_idx = get_next_vertex(Pre(1))
              /\ robots[1].position =
                    get_vertex_coords(nav_graph, get_next_vertex(Pre(1)))
              /\ robots[1].current_path_index = Pre(1).current_path_index + 1
              /\ robots[1].progress = Rat(0)
              /\ robots[1].state \in {MOVING, TASK_COMPLETE}
              /\ robots[1].state = TASK_COMPLETE
                    <=> robots[1].current_path_index = Len(robots[1].path) - 1

C27_Witness ==
    /\ last.op = "update"
    /\ Pre(1).state = MOVING /\ Granted(Pre(1))
    /\ RLt(Rat(0), Pre(1).progress)
    /\ robots[1].current_path_index = Pre(1).current_path_index + 1
    /\ robots[1].state = MOVING

----------------------------------------------------------------------------
(* C28 *)

\* C28: in every call of Robot.update in which the robot is not refused its
\* lane and moves along its segment, whether or not it ends the call at a
\* vertex or at its destination, the battery level goes down by
\* 0.01 * speed * delta_time, floored at 0; the level never goes up and is
\* never negative
C28_BatteryDrain ==
    last.op = "update" =>
        /\ RLe(robots[1].battery_level, Pre(1).battery_level)
        /\ RLe(Rat(0), robots[1].battery_level)
        /\ (Pre(1).state \in {MOVING, WAITING} /\ Granted(Pre(1)))
           => robots[1].battery_level =
                 RMax(Rat(0), RSub(Pre(1).battery_level,
                                   RMul(<<1, 100>>, RMul(Pre(1).speed, last.delta))))

----------------------------------------------------------------------------
(* C29 *)

\* the log lines of kind ev that the last tick wrote for robot_id
LogLines(ev, robot_id) ==
    {k \in 1..Len(last.log) : last.log[k].ev = ev /\ last.log[k].robot = robot_id}

\* C29: whenever a tick changes a robot from Moving to Waiting, the tick logs
\* a waiting event for that robot that names the refused lane and the robot
\* the table has on it
C29_WaitingIsLogged ==
    last.op = "tick" =>
        \A i \in Robots :
            (Pre(i).state = MOVING /\ robots[i].state = WAITING) =>
                \E k \in LogLines("waiting", robots[i].id) :
                    /\ last.log[k].lane = Segment(robots[i])
                    /\ last.log[k].blocker = occupied_lanes[Segment(robots[i])]

----------------------------------------------------------------------------
(* C30 *)

\* C30: a tick logs "moved from X to Y" for a robot only if in that tick the
\* robot's path index rose to the index of a vertex Y that is not the last of
\* its path, and then once; and it logs the arrival of a robot exactly in the
\* tick in which the robot becomes TaskComplete by moving, once
C30_MovedAndArrivedEvents ==
    last.op = "tick" =>
        \A i \in Robots :
            /\ \A k \in LogLines("moved", robots[i].id) :
                  /\ robots[i].current_path_index = Pre(i).current_path_index + 1
                  /\ robots[i].current_path_index < Len(robots[i].path) - 1
                  /\ last.log[k].to = robots[i].position_idx
                  /\ last.log[k].from = Pre(i).position_idx
                  /\ LogLines("moved", robots[i].id) = {k}
            /\ IF Pre(i).state # TASK_COMPLETE /\ robots[i].state = TASK_COMPLETE
               THEN \E k \in 1..Len(last.log) :
                        /\ LogLines("arrived", robots[i].id) = {k}
                        /\ last.log[k].dest = robots[i].position_idx
               ELSE LogLines("arrived", robots[i].id) = {}

----------------------------------------------------------------------------
(* C31 *)

TrafficCalls ==
    {"reserve_lane", "reserve_intersection", "clear_expired_reservations",
     "traffic_update"}

\* robot r has the lane it is about to move on leased to another robot
LeasedToOther(r) ==
    /\ Segment(r) \in DOMAIN last.tables.lane_reservations
    /\ last.tables.lane_reservations[Segment(r)].robot_id # r.id
    /\ RLt(last.tables.now,
           last.tables.lane_reservations[Segment(r)].expiry_time)

----------------------------------------------------------------------------
(* C32 *)

\* C32: get_current_lane is defined only while the robot is Moving with a
\* segment ahead, so every entry of the snapshot built at the start of a tick
\* names a robot that is Moving on that lane; a Waiting robot is on no entry
\* and is_lane_blocked answers true to another robot, on that snapshot, only
\* because of a Moving robot
C32_WaitingNotInSnapshot ==
    last.op = "tick" =>
        LET snap == Snapshot(last.pre.robots)
            Before == 1..Len(last.pre.robots)
        IN  /\ \A i \in Before :
                  get_current_lane(Pre(i)) # NoLane
                      <=> (Pre(i).state = MOVING /\ Segment(Pre(i)) # NoLane)
            /\ \A L \in DOMAIN snap :
                  \E i \in Before : /\ Pre(i).id = snap[L]
                                    /\ Pre(i).state = MOVING
                                    /\ Segment(Pre(i)) = L
            /\ \A i \in Before, j \in Before, L \in DOMAIN snap :
                  (/\ Pre(i).state = WAITING
                   /\ i # j
                   /\ is_lane_blocked(snap, L[1], L[2], Pre(j).id))
                  => snap[L] # Pre(i).id

C32_Witness ==
    /\ last.op = "tick"
    /\ \E i \in 1..Len(last.pre.robots) :
          /\ Pre(i).state = WAITING
          /\ StrictlyInside(Pre(i))
          /\ Segment(Pre(i)) \notin DOMAIN Snapshot(last.pre.robots)

----------------------------------------------------------------------------
(* C33 *)

\* C33: at every tick boundary the progress of each robot is in [0,1); the
\* position of a Moving or Waiting robot is the linear interpolation by its
\* progress between the coordinates of path[idx] and path[idx+1], so it is on
\* the segment between them; an Idle or TaskComplete robot has progress 0
C33_ProgressAndPosition ==
    \A i \in Robots :
        /\ RLe(Rat(0), robots[i].progress)
        /\ RLt(robots[i].progress, Rat(1))
        /\ robots[i].state \in {MOVING, WAITING} =>
              /\ Segment(robots[i]) # NoLane
              /\ robots[i].position =
                    PositionOn(nav_graph, robots[i].path,
                               robots[i].current_path_index, robots[i].progress)
        /\ robots[i].state \in {IDLE, TASK_COMPLETE} => robots[i].progress = Rat(0)

C33_Witness ==
    /\ last.op = "tick"
    /\ \E i \in Robots :
          /\ robots[i].state = MOVING
          /\ StrictlyInside(robots[i])
          /\ robots[i].current_path_index > 0
    /\ \E j \in Robots : robots[j].state = WAITING /\ StrictlyInside(robots[j])

----------------------------------------------------------------------------
(* C34 *)

NoRepeat(s) == \A i \in 1..Len(s), j \in 1..Len(s) : s[i] = s[j] => i = j

\* C34: find_shortest_path terminates on every graph and every pair of valid
\* indices. Each vertex is removed from unvisited at most once, so the first
\* loop makes at most |V| passes; it stops as soon as the target is selected
\* (the target is never removed) or the nearest unvisited vertex is at
\* distance infinity (no removed vertex is); the walk along the predecessor
\* links meets no vertex twice; the call returns, with the path that
\* find_shortest_path gives.
C34_ShortestPathTerminates ==
    /\ [](last.op \in {"searching", "walking", "returned"} =>
            /\ NoRepeat(last.removed)
            /\ Len(last.removed) <= NumVertices(nav_graph)
            /\ \A k \in 1..Len(last.removed) :
                  /\ last.removed[k] # last.vertex
                  /\ last.st.distances[last.removed[k]] # Infinity
            /\ last.st.unvisited =
                  VertexIdx(nav_graph) \ {last.removed[k] : k \in 1..Len(last.removed)}
            /\ NoRepeat(last.path)
            /\ Len(last.path) <= NumVertices(nav_graph)
            /\ last.op = "returned" =>
                  last.path = find_shortest_path(nav_graph, last.start_idx,
                                                 last.vertex))
    /\ <>(last.op = "returned")

C34_Witness ==
    /\ last.op = "returned"
    /\ Len(last.removed) = NumVertices(nav_graph) - 1
    /\ Len(last.path) = NumVertices(nav_graph)
    /\ \E k \in 1..Len(nav_graph.lanes) :
          nav_graph.lanes[k].end_idx = last.start_idx

----------------------------------------------------------------------------
(* C35 *)

\* the two robots of the runs from InitConvoy
ConvoyRobots == {1, 2}

\* C35: with a fixed set of robots, no further createRobot or assignTask and
\* ticks of positive duration made again and again, every robot that is
\* Moving or Waiting is eventually TaskComplete at its destination vertex
C35_EveryRobotArrives ==
    \A i \in ConvoyRobots :
        (robots[i].state \in {MOVING, WAITING})
            ~> (/\ robots[i].state = TASK_COMPLETE
                /\ robots[i].position_idx = robots[i].destination_idx)

C35_Witness ==
    /\ last.op = "tick"
    /\ \A i \in Robots : robots[i].state = TASK_COMPLETE
    /\ \E i \in Robots : /\ Pre(i).state = MOVING
                         /\ Len(robots[i].path) = 3
                         /\ RLt(Rat(8), now)

----------------------------------------------------------------------------
(* C36 *)

\* robot i was Moving or Waiting before the last call
WasActive(i) == Pre(i).state \in {MOVING, WAITING}

\* C36: in every tick of positive duration at whose start some robot is Moving
\* or Waiting, at least one robot advances (its progress or its path index
\* increases): the active robots are never all blocked in the same tick
C36_SomeRobotAdvances ==
    (/\ last.op = "tick"
     /\ RLt(Rat(0), last.delta)
     /\ \E i \in Robots : WasActive(i))
    => \E i \in Robots : WasActive(i) /\ Advanced(i)

C36_Witness ==
    /\ last.op = "tick"
    /\ \E i \in Robots : WasActive(i) /\ ~Advanced(i) /\ robots[i].state = WAITING
    /\ \E j \in Robots : WasActive(j) /\ Advanced(j)

----------------------------------------------------------------------------
(* C37 *)

\* robots i and j, i created before j, are the two robots Moving on the same
\* lane at the start of the last tick, and no other robot entered that lane
\* during the tick
TwoOnOneLane(i, j) ==
    /\ last.op = "tick"
    /\ i < j
    /\ Pre(i).state = MOVING /\ Pre(j).state = MOVING
    /\ get_current_lane(Pre(i)) # NoLane
    /\ get_current_lane(Pre(i)) = get_current_lane(Pre(j))
    /\ \A k \in 1..Len(last.pre.robots) \ {i, j} :
          /\ get_current_lane(Pre(k)) # get_current_lane(Pre(i))
          /\ get_current_lane(robots[k]) # get_current_lane(Pre(i))

\* C37: contention for a lane is resolved by creation order, not by position:
\* when two Moving robots have the same current lane at the start of a tick
\* and no third robot enters the lane, the robot created later advances and
\* the robot created earlier becomes Waiting where it is, whatever their
\* progress values
C37_LaterRobotWins ==
    \A i \in Robots, j \in Robots :
        TwoOnOneLane(i, j) =>
            /\ Advanced(j)
            /\ robots[i].state = WAITING
            /\ ~Advanced(i)

C37_Witness ==
    \E i \in Robots, j \in Robots :
        /\ TwoOnOneLane(i, j)
        /\ RLt(Pre(j).progress, Pre(i).progress)
        /\ robots[i].state = WAITING
        /\ Advanced(j)

----------------------------------------------------------------------------
(* C38 *)

\* C38: in every state reached through create_robot, FleetManager.assign_task
\* and ticks, each robot's vertex agrees with its path: a robot with a path is
\* at path[current_path_index]; a Moving or Waiting robot has
\* current_path_index < len(path) - 1; a TaskComplete robot is at its
\* destination, the last vertex of its path; and a tick never lowers the path
\* index
C38_PositionFollowsPath ==
    /\ \A i \in Robots :
          LET r == robots[i]
          IN  /\ r.path # <<>> =>
                    /\ r.current_path_index \in 0..(Len(r.path) - 1)
                    /\ r.position_idx = At(r.path, r.current_path_index)
              /\ r.state \in {MOVING, WAITING} =>
                    /\ r.path # <<>>
                    /\ r.current_path_index < Len(r.path) - 1
              /\ r.state = TASK_COMPLETE =>
                    /\ r.path # <<>>
                    /\ r.position_idx = r.destination_idx
                    /\ r.position_idx = r.path[Len(r.path)]
    /\ last.op = "tick" =>
          \A i \in Robots :
              /\ robots[i].task_id = Pre(i).task_id
              /\ robots[i].path = Pre(i).path
              /\ robots[i].current_path_index >= Pre(i).current_path_index

C38_Witness ==
    /\ last.op = "tick"
    /\ \E i \in Robots : /\ robots[i].state = TASK_COMPLETE
                         /\ robots[i].current_path_index >= 1
    /\ \E j \in Robots : /\ robots[j].state = MOVING
                         /\ robots[j].current_path_index = 1
                         /\ Pre(j).current_path_index = 0

----------------------------------------------------------------------------
(* C39 *)

\* C39: no travelled distance is lost at vertices: whatever the positive tick
\* durations, a lone robot of speed s on a path of total length D is
\* TaskComplete at every tick boundary at or after time D / s, so at the
\* first one
C39_NoDistanceLost ==
    LET r == robots[1]
        D == PathLength(nav_graph, r.path, Len(r.path) - 1)
    IN  (last.op = "tick" /\ RLe(RDiv(Rat(D), r.speed), now))
        => r.state = TASK_COMPLETE

====
